---- MODULE Spec2Model ----
(***************************************************************************)
(* Ouro marketplace.                                                       *)
(*                                                                         *)
(*   Ledger  : contracts/Ouro.sol, the Ouro contract over a USDC token.    *)
(*   Mirror  : the Postgres tables products / transactions / tag_analytics *)
(*             written by the event indexer (indexEvents) and by the API   *)
(*             routes POST /api/products/create and                        *)
(*             POST /api/products/[id]/purchase.                           *)
(*                                                                         *)
(* Ledger amounts are USDC minor units (6 decimals).  Mirror amounts are   *)
(* decimal(10,2) columns, held here as integer hundredths ("cents").       *)
(***************************************************************************)
EXTENDS Integers, Sequences, FiniteSets, TLC

(***************************** bounds **************************************)
\* Ledger transactions submitted (committed or reverted).
MaxTx == 3
\* Token balance every user starts with.
InitialBalance == 4000000
\* block.timestamp of the first transaction is GenesisTime + 1.
GenesisTime == 100
\* Calls into the mirror's writers: POST /api/products/create, POST
\* /api/products/[id]/purchase, and ProductPurchased logs handed to the
\* indexer (re-deliveries included).
MaxMirrorCalls == 3
\* Committed ledger transactions while the mirror is being written.
MaxMirroredTx == 2
\* Ledger transactions while reviews are being left: the listings and
\* purchases before them, and the leaveReview calls.
MaxReviewTx == 6

(************************* program constants *******************************)
LISTING_FEE == 2000000
PLATFORM_FEE_BPS == 800
MAX_TAGS == 8
MAX_NAME_LENGTH == 100
MIN_PRICE == 100000
\* Max price is 10000 * 10^6 minor units, kept as dollars times minor units per dollar.
MAX_PRICE_DOLLARS == 10000
MINOR_PER_DOLLAR == 1000000
\* The largest uint8: the type of leaveReview's rating.
MAX_UINT8 == 255

(***************************** inputs **************************************)
Seller == "seller"
Buyer == "buyer"
Users == {Seller, Buyer}
InitialTreasury == "treasury"
ContractAddress == "ouro"
ZeroAddress == "0x0"
\* A request body without buyerAddress.
NoAddress == ""
\* The deployer: Ownable(msg.sender).
Owner == "owner"
\* An address the owner may move the treasury to.
NewTreasury == "treasury2"
Accounts == Users \cup {InitialTreasury, ContractAddress, Owner, NewTreasury}

\* A name is the sequence of its bytes.
Names == { <<"a", "i">> }
TagLists == { <<"nlp">> }
\* A uint256 amount of minor units above the checker's integers is kept as
\* whole dollars and the minor units below a dollar.
Amount(dollars, micros) == [dollars |-> dollars, micros |-> micros]
\* 1,000,000 is the $1.00 scenario; 123457 is not a multiple of 10000/800.
Prices == { Amount(1, 0), Amount(0, 123457) }
\* The price of the listings the mirror follows: the $1.00 scenario.
MirroredPrices == { Amount(1, 0) }
MetadataURI == "r2://meta"
\* Malformed listing fields: no byte and 101 bytes; no tag and 9 tags;
\* one minor unit below the minimum and one above the maximum.
BadNames == { <<>>, [i \in 1..(MAX_NAME_LENGTH + 1) |-> "a"] }
BadTagLists == { <<>>, [i \in 1..(MAX_TAGS + 1) |-> "nlp"] }
BadPrices == { Amount(0, MIN_PRICE - 1), Amount(MAX_PRICE_DOLLARS, 1) }
\* What a seller submits to listProduct.
Listing(name, tags, price) == [name |-> name, tags |-> tags, price |-> price]
Listings(prices) == { Listing(n, t, q) : n \in Names, t \in TagLists, q \in prices }
\* Listings with one malformed field, and one with all three malformed.
BadListings ==
    { Listing(n, t, q) : n \in BadNames, t \in TagLists, q \in Prices }
      \cup { Listing(n, t, q) : n \in Names, t \in BadTagLists, q \in Prices }
      \cup { Listing(n, t, q) : n \in Names, t \in TagLists, q \in BadPrices }
      \cup { Listing(<<>>, <<>>, Amount(0, MIN_PRICE - 1)) }
\* uint8 rating: below, within and above 1..5.
Ratings == {0, 1, 2, 5, 6}

VARIABLES
    usdc,          \* USDC.balanceOf: account -> minor units
    ouro,          \* storage of the Ouro contract
    logs,          \* the event log of the chain, in emission order
    txCount,       \* transactions mined so far
    lastReceipt,   \* receipt of the latest transaction
    db,            \* the mirror: Postgres tables products, transactions,
                   \* tag_analytics, sellers
    follower,      \* the indexer's ProductPurchased onLogs call in flight
    deliveries,    \* transaction hash -> times its ProductPurchased log was
                   \* handed to onLogs
    requests,      \* POST /api/products/[id]/purchase requests in flight,
                   \* by arrival
    received,      \* receipts posted so far
    lister,        \* the indexer's ProductListed onLogs call in flight
    watchFrom,     \* the block the running indexer's watchers started after
    errors,        \* statements that threw so far (console.error)
    delivery,      \* the POST /api/deliver/[id] request in flight, and the
                   \* last response
    subscriptions, \* the mirror's subscriptions table
    now,           \* Date.now(), in days
    links,         \* Coinbase payment links created so far
    paidLinks,     \* payment links whose payment succeeded
    response,      \* the last response of a subscription route
    agent          \* the SDK's callPremiumEndpoint invocation in flight

ledgerVars == <<usdc, ouro, logs, txCount, lastReceipt>>

(***************************************************************************)
(* Solidity storage                                                        *)
(***************************************************************************)
\* An identifier that leaves out the sequence number totalProducts.
ProductIdWithoutCount(sender, name, timestamp, n) == <<sender, name, timestamp, 0>>

\* keccak256(abi.encodePacked(msg.sender, name, block.timestamp, totalProducts)):
\* collision-resistant, so the id is the tuple that was hashed.
ProductIdOf(sender, name, timestamp, n) == <<sender, name, timestamp, n>>

\* An id no listing produces.
UnknownProductId == <<ZeroAddress, <<>>, 0, 0>>

\* The value a mapping(bytes32 => Product) reads at a key never written.
ZeroProduct ==
    [ id |-> UnknownProductId, seller |-> ZeroAddress, name |-> <<>>,
      tags |-> <<>>, priceUSDC |-> 0, metadataURI |-> "",
      totalSales |-> 0, totalRevenueUSDC |-> 0, listedAt |-> 0,
      deprecated |-> FALSE ]

\* products[productId]
ProductAt(st, productId) ==
    IF productId \in DOMAIN st.products THEN st.products[productId]
    ELSE ZeroProduct

\* productPurchases[productId]
PurchasesAt(st, productId) ==
    IF productId \in DOMAIN st.productPurchases
    THEN st.productPurchases[productId] ELSE <<>>

\* The block of the n-th transaction: a block holds two transactions.
BlockOf(n) == (n + 1) \div 2

\* block.timestamp of the n-th transaction: the transactions of one block
\* see the same timestamp.
BlockTimestamp(n) == GenesisTime + BlockOf(n)

\* The world a transaction runs in and may roll back as a whole.
World == [usdc |-> usdc, ouro |-> ouro, logs |-> logs]

(***************************************************************************)
(* The USDC token (IERC20).  `honoured` is the token's own answer          *)
(* (allowance, pause, blacklist): the transfer moves funds only if the     *)
(* token honours it and the sender holds the amount.                       *)
(***************************************************************************)
TokenMoves(bal, from, amount, honoured) == honoured /\ bal[from] >= amount

TokenTransfer(bal, from, to, amount, honoured) ==
    IF TokenMoves(bal, from, amount, honoured) /\ from # to
    THEN [bal EXCEPT ![from] = @ - amount, ![to] = @ + amount]
    ELSE bal

(***************************************************************************)
(* Call outcomes.  A revert discards every effect of the call: storage,    *)
(* token movements and events.                                             *)
(***************************************************************************)
Committed(w) == [status |-> "ok", world |-> w]

Reverted(pre, error) == [status |-> error, world |-> pre]

\* The event is written to the log twice.
EmitTwice(w, tx, event) ==
    [w EXCEPT !.logs = Append(Append(@, event @@ [tx |-> tx, blockNumber |-> BlockOf(tx)]),
                              event @@ [tx |-> tx, blockNumber |-> BlockOf(tx)])]

Emit(w, tx, event) ==
    [w EXCEPT !.logs = Append(@, event @@ [tx |-> tx, blockNumber |-> BlockOf(tx)])]

GasSponsored(user, action) ==
    [kind |-> "GasSponsored", user |-> user, action |-> action]

(***************************************************************************)
(* Ouro.listProduct                                                        *)
(***************************************************************************)
\* The minor units of an amount.
MinorUnits(price) == price.dollars * MINOR_PER_DOLLAR + price.micros

\* A listing check without the minimum price.
NoMinPrice(price) == FALSE

\* priceUSDC < 100000
BelowMinPrice(price) == price.dollars = 0 /\ price.micros < MIN_PRICE

\* priceUSDC > 10000 * 10 ** 6
AboveMaxPrice(price) ==
    \/ price.dollars > MAX_PRICE_DOLLARS
    \/ price.dollars = MAX_PRICE_DOLLARS /\ price.micros > 0

\* A listing fee charged twice.
ListingFeePaidTwice(bal, sender, treasury, honoured) ==
    TokenTransfer(TokenTransfer(bal, sender, treasury, LISTING_FEE, honoured),
                  sender, treasury, LISTING_FEE, honoured)

\* USDC.transferFrom(msg.sender, treasury, LISTING_FEE)
ListingFeePaid(bal, sender, treasury, honoured) ==
    TokenTransfer(bal, sender, treasury, LISTING_FEE, honoured)

listProduct(w, tx, sender, name, tags, priceUSDC, metadataURI, honoured) ==
    IF Len(name) = 0 \/ Len(name) > MAX_NAME_LENGTH THEN Reverted(w, "InvalidName")
    ELSE IF Len(tags) = 0 \/ Len(tags) > MAX_TAGS THEN Reverted(w, "InvalidTags")
    ELSE IF BelowMinPrice(priceUSDC) \/ AboveMaxPrice(priceUSDC)
         THEN Reverted(w, "InvalidPrice")
    ELSE IF metadataURI = "" THEN Reverted(w, "InvalidMetadataURI")
    ELSE IF ~TokenMoves(w.usdc, sender, LISTING_FEE, honoured)
         THEN Reverted(w, "USDCTransferFailed")
    ELSE
      LET productId == ProductIdOf(sender, name, BlockTimestamp(tx),
                                   w.ouro.totalProducts)
          product == [ id |-> productId, seller |-> sender, name |-> name,
                       tags |-> tags, priceUSDC |-> MinorUnits(priceUSDC),
                       metadataURI |-> metadataURI, totalSales |-> 0,
                       totalRevenueUSDC |-> 0,
                       listedAt |-> BlockTimestamp(tx), deprecated |-> FALSE ]
          paid == ListingFeePaid(w.usdc, sender, w.ouro.treasury, honoured)
          stored == [w.ouro EXCEPT
                       !.products = [x \in DOMAIN @ \cup {productId} |->
                                       IF x = productId THEN product ELSE @[x]],
                       !.totalProducts = @ + 1]
          w1 == [w EXCEPT !.usdc = paid, !.ouro = stored]
          w2 == Emit(w1, tx, [kind |-> "ProductListed", id |-> productId,
                              seller |-> sender, name |-> name, tags |-> tags,
                              priceUSDC |-> MinorUnits(priceUSDC),
                              metadataURI |-> metadataURI])
      IN Committed(Emit(w2, tx, GasSponsored(sender, "listProduct")))

(***************************************************************************)
(* Ouro.purchase.  h1, h2, h3: whether the token honours the buyer's       *)
(* transferFrom, the transfer to the treasury, the transfer to the seller. *)
(***************************************************************************)
\* A fee computed by dividing before multiplying.
PlatformFeeDivideFirst(priceUSDC) == (priceUSDC \div 10000) * PLATFORM_FEE_BPS

PlatformFee(priceUSDC) == (priceUSDC * PLATFORM_FEE_BPS) \div 10000

SellerAmount(priceUSDC) == priceUSDC - PlatformFee(priceUSDC)

\* The three token calls of purchase, in order; each result feeds the next.
PurchaseTransfers(bal, sender, product, treasury, h1, h2, h3) ==
    LET b1 == TokenTransfer(bal, sender, ContractAddress, product.priceUSDC, h1)
        b2 == TokenTransfer(b1, ContractAddress, treasury,
                            PlatformFee(product.priceUSDC), h2)
        b3 == TokenTransfer(b2, ContractAddress, product.seller,
                            SellerAmount(product.priceUSDC), h3)
    IN [ buyerTransfer |-> TokenMoves(bal, sender, product.priceUSDC, h1),
         platformTransfer |-> TokenMoves(b1, ContractAddress,
                                         PlatformFee(product.priceUSDC), h2),
         sellerTransfer |-> TokenMoves(b2, ContractAddress,
                                       SellerAmount(product.priceUSDC), h3),
         afterBuyer |-> b1, afterAll |-> b3 ]

\* A failed token call that returns without reverting.
TransferFailedKeepsPartial(pre, partial) ==
    [status |-> "USDCTransferFailed", world |-> partial]

\* What a failed token call leaves of the call's effects: nothing.
TransferFailed(pre, partial) == Reverted(pre, "USDCTransferFailed")

\* A purchase record that does not set the proof of purchase.
RecordPurchaseWithoutProof(w, tx, sender, productId) ==
    LET product == ProductAt(w.ouro, productId)
        purchaseRec == [ productId |-> productId, buyer |-> sender,
                         amountPaid |-> product.priceUSDC,
                         purchasedAt |-> BlockTimestamp(tx),
                         delivered |-> FALSE ]
        stored == [w.ouro EXCEPT
                     !.products[productId].totalSales = @ + 1,
                     !.products[productId].totalRevenueUSDC =
                         @ + SellerAmount(product.priceUSDC),
                     !.totalVolume = @ + product.priceUSDC,
                     !.productPurchases =
                         [x \in DOMAIN @ \cup {productId} |->
                            IF x = productId
                            THEN Append(PurchasesAt(w.ouro, productId), purchaseRec)
                            ELSE @[x]]]
        w1 == [w EXCEPT !.ouro = stored]
        w2 == Emit(w1, tx, [kind |-> "ProductPurchased", productId |-> productId,
                            buyer |-> sender, seller |-> product.seller,
                            priceUSDC |-> product.priceUSDC,
                            platformFee |-> PlatformFee(product.priceUSDC)])
    IN Emit(w2, tx, GasSponsored(sender, "purchase"))

\* A purchase record that credits the gross price as revenue.
RecordPurchaseGross(w, tx, sender, productId) ==
    LET product == ProductAt(w.ouro, productId)
        stored == [w.ouro EXCEPT
                     !.products[productId].totalSales = @ + 1,
                     !.products[productId].totalRevenueUSDC =
                         @ + product.priceUSDC,
                     !.totalVolume = @ + product.priceUSDC,
                     !.hasPurchased = @ \cup {<<sender, productId>>}]
        w1 == [w EXCEPT !.ouro = stored]
    IN Emit(w1, tx, [kind |-> "ProductPurchased", productId |-> productId,
                     buyer |-> sender, seller |-> product.seller,
                     priceUSDC |-> product.priceUSDC,
                     platformFee |-> PlatformFee(product.priceUSDC)])

\* Lines 223-248: stats, purchase record, proof of purchase, events.
RecordPurchase(w, tx, sender, productId) ==
    LET product == ProductAt(w.ouro, productId)
        purchaseRec == [ productId |-> productId, buyer |-> sender,
                         amountPaid |-> product.priceUSDC,
                         purchasedAt |-> BlockTimestamp(tx),
                         delivered |-> FALSE ]
        stored == [w.ouro EXCEPT
                     !.products[productId].totalSales = @ + 1,
                     !.products[productId].totalRevenueUSDC =
                         @ + SellerAmount(product.priceUSDC),
                     !.totalVolume = @ + product.priceUSDC,
                     !.productPurchases =
                         [x \in DOMAIN @ \cup {productId} |->
                            IF x = productId
                            THEN Append(PurchasesAt(w.ouro, productId), purchaseRec)
                            ELSE @[x]],
                     !.hasPurchased = @ \cup {<<sender, productId>>}]
        w1 == [w EXCEPT !.ouro = stored]
        w2 == Emit(w1, tx, [kind |-> "ProductPurchased", productId |-> productId,
                            buyer |-> sender, seller |-> product.seller,
                            priceUSDC |-> product.priceUSDC,
                            platformFee |-> PlatformFee(product.priceUSDC)])
    IN Emit(w2, tx, GasSponsored(sender, "purchase"))

\* A purchase that lets the seller buy their own product.
purchaseByAnyone(w, tx, sender, productId, h1, h2, h3) ==
    LET product == ProductAt(w.ouro, productId)
        t == PurchaseTransfers(w.usdc, sender, product, w.ouro.treasury, h1, h2, h3)
    IN IF product.listedAt = 0 THEN Reverted(w, "ProductNotFound")
       ELSE IF product.deprecated THEN Reverted(w, "ProductIsDeprecated")
       ELSE IF ~t.buyerTransfer \/ ~t.platformTransfer \/ ~t.sellerTransfer
            THEN Reverted(w, "USDCTransferFailed")
       ELSE Committed(RecordPurchase([w EXCEPT !.usdc = t.afterAll], tx,
                                     sender, productId))

\* A purchase that does not look at the deprecated flag.
purchaseOfDeprecated(w, tx, sender, productId, h1, h2, h3) ==
    LET product == ProductAt(w.ouro, productId)
        t == PurchaseTransfers(w.usdc, sender, product, w.ouro.treasury, h1, h2, h3)
    IN IF product.listedAt = 0 THEN Reverted(w, "ProductNotFound")
       ELSE IF sender = product.seller THEN Reverted(w, "CannotBuyOwnProduct")
       ELSE IF ~t.buyerTransfer \/ ~t.platformTransfer \/ ~t.sellerTransfer
            THEN Reverted(w, "USDCTransferFailed")
       ELSE Committed(RecordPurchase([w EXCEPT !.usdc = t.afterAll], tx,
                                     sender, productId))

purchase(w, tx, sender, productId, h1, h2, h3) ==
    LET product == ProductAt(w.ouro, productId)
        t == PurchaseTransfers(w.usdc, sender, product, w.ouro.treasury, h1, h2, h3)
    IN IF product.listedAt = 0 THEN Reverted(w, "ProductNotFound")
       ELSE IF product.deprecated THEN Reverted(w, "ProductIsDeprecated")
       ELSE IF sender = product.seller THEN Reverted(w, "CannotBuyOwnProduct")
       ELSE IF ~t.buyerTransfer
            THEN TransferFailed(w, w)
       ELSE IF ~t.platformTransfer \/ ~t.sellerTransfer
            THEN TransferFailed(w, [w EXCEPT !.usdc = t.afterAll])
       ELSE Committed(RecordPurchase([w EXCEPT !.usdc = t.afterAll], tx,
                                     sender, productId))

(***************************************************************************)
(* Ouro.deprecateProduct                                                   *)
(***************************************************************************)
\* The product record as a write to products[productId] leaves it.
WithProduct(w, productId, product) ==
    [w EXCEPT !.ouro.products =
        [x \in DOMAIN @ \cup {productId} |->
            IF x = productId THEN product ELSE @[x]]]

\* A deprecation that deletes the record.
deprecateProductDeleting(w, tx, sender, productId) ==
    IF sender # ProductAt(w.ouro, productId).seller
    THEN Reverted(w, "NotProductOwner")
    ELSE Committed(Emit(WithProduct(w, productId, ZeroProduct), tx,
                        [kind |-> "ProductDeprecated",
                         productId |-> productId, seller |-> sender]))

\* A deprecation that flips the flag.
deprecateProductToggling(w, tx, sender, productId) ==
    IF sender # ProductAt(w.ouro, productId).seller
    THEN Reverted(w, "NotProductOwner")
    ELSE Committed(Emit(
            WithProduct(w, productId,
                [ProductAt(w.ouro, productId) EXCEPT !.deprecated = ~@]), tx,
            [kind |-> "ProductDeprecated",
             productId |-> productId, seller |-> sender]))

\* A deprecation open to every caller.
deprecateProductByAnyone(w, tx, sender, productId) ==
    Committed(Emit(
        WithProduct(w, productId,
            [ProductAt(w.ouro, productId) EXCEPT !.deprecated = TRUE]), tx,
        [kind |-> "ProductDeprecated",
         productId |-> productId, seller |-> sender]))

deprecateProduct(w, tx, sender, productId) ==
    IF sender # ProductAt(w.ouro, productId).seller
    THEN Reverted(w, "NotProductOwner")
    ELSE LET w1 == [w EXCEPT !.ouro.products[productId].deprecated = TRUE]
         IN Committed(Emit(w1, tx, [kind |-> "ProductDeprecated",
                                    productId |-> productId, seller |-> sender]))

(***************************************************************************)
(* Ouro.leaveReview                                                        *)
(***************************************************************************)
\* productRatings[productId], in hundredths of a star
RatingAt(st, productId) ==
    IF productId \in DOMAIN st.productRatings
    THEN st.productRatings[productId] ELSE 0

\* productReviewCount[productId]
ReviewCountAt(st, productId) ==
    IF productId \in DOMAIN st.productReviewCount
    THEN st.productReviewCount[productId] ELSE 0

\* A review gate that lets every caller through.
EveryoneIsProductBuyer(st, sender, productId) == TRUE

\* hasPurchased[msg.sender][productId]
IsProductBuyer(st, sender, productId) == <<sender, productId>> \in st.hasPurchased

\* rating * 100: the literal takes the type of rating, so the product is a
\* checked uint8 multiplication and panics above 255.
Uint8MulOverflows(a, b) == a * b > MAX_UINT8

\* An average that weighs the old average by the count already incremented.
RollingAverageCountFirst(average, count, rating) ==
    (average * (count + 1) + rating * 100) \div (count + 1)

\* (productRatings * productReviewCount + rating * 100) / (productReviewCount + 1)
RollingAverage(average, count, rating) ==
    (average * count + rating * 100) \div (count + 1)

leaveReview(w, tx, sender, productId, rating) ==
    IF rating < 1 \/ rating > 5 THEN Reverted(w, "InvalidRating")
    ELSE IF ~IsProductBuyer(w.ouro, sender, productId)
         THEN Reverted(w, "NotProductBuyer")
    ELSE IF ProductAt(w.ouro, productId).listedAt = 0
         THEN Reverted(w, "ProductNotFound")
    ELSE IF Uint8MulOverflows(rating, 100) THEN Reverted(w, "Panic(0x11)")
    ELSE
      LET count == ReviewCountAt(w.ouro, productId)
          average == RollingAverage(RatingAt(w.ouro, productId), count, rating)
          stored == [w.ouro EXCEPT
                       !.productReviewCount =
                           [x \in DOMAIN @ \cup {productId} |->
                              IF x = productId THEN count + 1 ELSE @[x]],
                       !.productRatings =
                           [x \in DOMAIN @ \cup {productId} |->
                              IF x = productId THEN average ELSE @[x]]]
          w1 == [w EXCEPT !.ouro = stored]
          w2 == Emit(w1, tx, [kind |-> "ProductReviewed", productId |-> productId,
                              reviewer |-> sender, rating |-> rating,
                              newAverageRating |-> average])
      IN Committed(Emit(w2, tx, GasSponsored(sender, "leaveReview")))

(***************************************************************************)
(* View functions                                                          *)
(***************************************************************************)
\* A proof-of-purchase read that answers true for every pair.
hasUserPurchasedAlways(st, user, productId) == TRUE

\* Ouro.hasUserPurchased(user, productId)
hasUserPurchased(st, user, productId) == <<user, productId>> \in st.hasPurchased

(***************************************************************************)
(* Admin functions (onlyOwner)                                             *)
(***************************************************************************)
updateTreasury(w, tx, sender, newTreasury) ==
    IF sender # Owner THEN Reverted(w, "OwnableUnauthorizedAccount")
    ELSE IF newTreasury = ZeroAddress THEN Reverted(w, "Invalid address")
    ELSE LET w1 == [w EXCEPT !.ouro.treasury = newTreasury]
         IN Committed(Emit(w1, tx, [kind |-> "TreasuryUpdated",
                                    oldTreasury |-> w.ouro.treasury,
                                    newTreasury |-> newTreasury]))

\* The result of USDC.transfer is not looked at.
emergencyWithdraw(w, tx, sender, honoured) ==
    IF sender # Owner THEN Reverted(w, "OwnableUnauthorizedAccount")
    ELSE IF w.usdc[ContractAddress] > 0
         THEN Committed([w EXCEPT !.usdc =
                 TokenTransfer(@, ContractAddress, w.ouro.treasury,
                               w.usdc[ContractAddress], honoured)])
    ELSE Committed(w)

(***************************************************************************)
(* Ledger transitions: one transaction each, atomically.                   *)
(***************************************************************************)
LedgerInit ==
    /\ usdc = [a \in Accounts |-> IF a \in Users THEN InitialBalance ELSE 0]
    /\ ouro = [ treasury |-> InitialTreasury, totalProducts |-> 0,
                totalVolume |-> 0, products |-> <<>>,
                productRatings |-> <<>>, productReviewCount |-> <<>>,
                productPurchases |-> <<>>, hasPurchased |-> {} ]
    /\ logs = <<>>
    /\ txCount = 0
    /\ lastReceipt = [tx |-> 0, op |-> "constructor", sender |-> ZeroAddress,
                      productId |-> UnknownProductId, status |-> "ok",
                      args |-> <<>>]

\* A mined transaction: its outcome, and a receipt naming the call, its
\* product and its other arguments.
MinedWith(out, op, sender, productId, args) ==
    /\ usdc' = out.world.usdc
    /\ ouro' = out.world.ouro
    /\ logs' = out.world.logs
    /\ txCount' = txCount + 1
    /\ lastReceipt' = [tx |-> txCount + 1, op |-> op, sender |-> sender,
                       productId |-> productId, status |-> out.status,
                       args |-> args]

Mined(out, op, sender, productId) == MinedWith(out, op, sender, productId, <<>>)

ListProductWithin(limit, listings) ==
    \E listing \in listings, honoured \in BOOLEAN :
        /\ txCount < limit
        /\ LET out == listProduct(World, txCount + 1, Seller, listing.name,
                                  listing.tags, listing.price, MetadataURI,
                                  honoured)
           IN MinedWith(out, "listProduct", Seller,
                        IF out.status = "ok"
                        THEN ProductIdOf(Seller, listing.name,
                                         BlockTimestamp(txCount + 1),
                                         ouro.totalProducts)
                        ELSE UnknownProductId,
                        listing)

PurchaseInputs == DOMAIN ouro.products \cup {UnknownProductId}

PurchaseWithin(limit) ==
    \E sender \in Users, productId \in PurchaseInputs, h1, h2, h3 \in BOOLEAN :
        /\ txCount < limit
        /\ Mined(purchase(World, txCount + 1, sender, productId, h1, h2, h3),
                 "purchase", sender, productId)

DeprecateWithin(limit) ==
    \E sender \in Users, productId \in PurchaseInputs :
        /\ txCount < limit
        /\ Mined(deprecateProduct(World, txCount + 1, sender, productId),
                 "deprecateProduct", sender, productId)

LeaveReviewWithin(limit) ==
    \E sender \in Users, productId \in PurchaseInputs, rating \in Ratings :
        /\ txCount < limit
        /\ MinedWith(leaveReview(World, txCount + 1, sender, productId, rating),
                     "leaveReview", sender, productId, [rating |-> rating])

\* The owner and one other caller.
AdminCallers == {Owner, Buyer}

UpdateTreasuryWithin(limit) ==
    \E sender \in AdminCallers, newTreasury \in {NewTreasury, ZeroAddress} :
        /\ txCount < limit
        /\ MinedWith(updateTreasury(World, txCount + 1, sender, newTreasury),
                     "updateTreasury", sender, UnknownProductId,
                     [newTreasury |-> newTreasury])

EmergencyWithdrawWithin(limit) ==
    \E sender \in AdminCallers, honoured \in BOOLEAN :
        /\ txCount < limit
        /\ Mined(emergencyWithdraw(World, txCount + 1, sender, honoured),
                 "emergencyWithdraw", sender, UnknownProductId)



(***************************************************************************)
(* The mirror store.  A table is the sequence of its rows; a row's uuid    *)
(* primary key (defaultRandom) is its position.  Write-time columns        *)
(* (lastSaleAt, updatedAt, createdAt) and the random slug are left out.    *)
(***************************************************************************)
auxVars == <<lister, watchFrom, errors, delivery>>

billingVars == <<subscriptions, now, links, paidLinks, response>>

sideVars == <<billingVars, agent>>

mirrorVars == <<db, follower, deliveries, requests, received, auxVars, sideVars>>

coreVars == <<ledgerVars, db, follower, deliveries, requests, received, auxVars>>

vars == <<usdc, ouro, logs, txCount, lastReceipt, db, follower, deliveries,
          requests, received, lister, watchFrom, errors, delivery,
          subscriptions, now, links, paidLinks, response, agent>>

\* No row: a findFirst that found nothing, a NULL foreign key.
NoRow == 0

\* products.avg_rating of a row never rated: NULL.  A rating is kept in
\* hundredths, as decimal(3,2) holds it.
NoRating == 0

\* A decimal(10,2) column receiving Number(minor) / 1e6: numeric rounds half
\* away from zero to hundredths.
CentsOfMinor(minor) == (minor + 5000) \div 10000

\* String(Number(priceUSDC).toFixed(2)) of the dollars a client sends for a
\* price of `minor` minor units.
CentsOfDollars(minor) == (minor + 5000) \div 10000

\* (price * 0.08).toFixed(2), price a decimal(10,2) value in hundredths.
IntakePlatformFee(priceCents) == (priceCents * 8 + 50) \div 100

\* (price - price * 0.08).toFixed(2)
IntakeSellerAmount(priceCents) == (priceCents * 92 + 50) \div 100

\* A transactions table without the unique constraint on tx_hash.
TxHashNeverTaken(d, txHash) == FALSE

\* The unique constraint transactions.tx_hash: a row with this hash exists.
TxHashTaken(d, txHash) ==
    \E i \in DOMAIN d.transactions : d.transactions[i].txHash = txHash

\* INSERT INTO transactions, the row accepted by the unique constraint.
InsertTransactionRow(d, row) ==
    [d EXCEPT !.transactions =
        Append(@, row @@ [id |-> Len(@) + 1])]

\* tag_analytics upsert: insert with the given counters, or add one to `field`.
UpsertTag(d, tag, field) ==
    [d EXCEPT !.tagAnalytics =
        [t \in DOMAIN @ \cup {tag} |->
            IF t \in DOMAIN @ /\ t # tag THEN @[t]
            ELSE IF t \in DOMAIN @ THEN [@[t] EXCEPT ![field] = @ + 1]
            ELSE [productCount |-> 0, totalPurchases |-> 0] @@ [a \in {field} |-> 1]]]

(***************************************************************************)
(* POST /api/products/create: the client mirrors its own listing.          *)
(***************************************************************************)
RECURSIVE BumpTags(_, _, _, _)
BumpTags(d, tags, k, field) ==
    IF k > Len(tags) THEN d
    ELSE BumpTags(UpsertTag(d, tags[k], field), tags, k + 1, field)

createProduct(d, chainProduct) ==
    LET row == [ id |-> Len(d.products) + 1,
                 productId |-> chainProduct.id,
                 sellerAddress |-> chainProduct.seller,
                 name |-> chainProduct.name,
                 tags |-> chainProduct.tags,
                 priceUSDC |-> CentsOfDollars(chainProduct.priceUSDC),
                 totalSales |-> 0, totalRevenueUSDC |-> 0,
                 avgRating |-> NoRating, totalReviews |-> 0,
                 deprecated |-> FALSE ]
    IN BumpTags([d EXCEPT !.products = Append(@, row)], row.tags, 1,
                "productCount")

(***************************************************************************)
(* indexEvents, the ProductPurchased watcher: the statements of one        *)
(* iteration of `for (const log of logs)`.                                 *)
(***************************************************************************)
\* UPDATE products SET total_sales + 1, total_revenue_usdc + price
\* WHERE product_id = log.productId
FollowerUpdateStats(d, log) ==
    [d EXCEPT !.products =
        [i \in DOMAIN @ |->
            IF @[i].productId = log.productId
            THEN [@[i] EXCEPT !.totalSales = @ + 1,
                              !.totalRevenueUSDC = @ + CentsOfMinor(log.priceUSDC)]
            ELSE @[i]]]

\* The rows db.query.products.findFirst(where productId = ...) may return.
RowsOfChainProduct(d, productId) ==
    { i \in DOMAIN d.products : d.products[i].productId = productId }

\* INSERT INTO transactions ... ON CONFLICT DO NOTHING
FollowerInsertTransaction(d, log, p) ==
    IF TxHashTaken(d, log.tx) THEN d
    ELSE InsertTransactionRow(d,
            [ txHash |-> log.tx, blockNumber |-> log.blockNumber,
              type |-> "purchase", productId |-> p,
              fromAddress |-> log.buyer, toAddress |-> log.seller,
              amountUSDC |-> CentsOfMinor(log.priceUSDC),
              platformFeeUSDC |-> CentsOfMinor(log.platformFee) ])

\* INSERT INTO sellers ... ON CONFLICT (address) DO UPDATE total_earnings + price
FollowerUpsertSeller(d, log) ==
    [d EXCEPT !.sellers =
        [a \in DOMAIN @ \cup {log.seller} |->
            IF a # log.seller THEN @[a]
            ELSE IF a \in DOMAIN @
                 THEN [@[a] EXCEPT !.totalEarningsUSDC =
                                       @ + CentsOfMinor(log.priceUSDC)]
                 ELSE [ totalEarningsUSDC |-> CentsOfMinor(log.priceUSDC),
                        totalListings |-> 1 ]]]

\* One whole iteration, run with nothing in between; p is the row findFirst
\* returns (NoRow: none).
FollowerProject(d, log, p) ==
    FollowerUpsertSeller(
        FollowerInsertTransaction(FollowerUpdateStats(d, log), log, p), log)

(***************************************************************************)
(* POST /api/products/[id]/purchase                                        *)
(***************************************************************************)
\* The text of a row's uuid, as a caller puts it in the URL.
Uuid(i) == <<"uuid", i>>

\* The rows findFirst(where id = :id OR product_id = :id) may return.
RowsOfIdParam(d, id) ==
    { i \in DOMAIN d.products : Uuid(i) = id \/ d.products[i].productId = id }

\* What the handler keeps of the product row it read.
ProductSnapshot(d, i) ==
    [ id |-> i, priceUSDC |-> d.products[i].priceUSDC,
      sellerAddress |-> d.products[i].sellerAddress,
      tags |-> d.products[i].tags ]

NoProduct == [ id |-> NoRow, priceUSDC |-> 0, sellerAddress |-> ZeroAddress,
               tags |-> <<>> ]

\* An insert that ignores a conflicting row instead of throwing.
IntakeInsertIgnoringConflict(d, req) == [thrown |-> FALSE, db |-> d]

\* 1. INSERT INTO transactions (no ON CONFLICT): a taken tx_hash throws.
IntakeInsertTransaction(d, req) ==
    IF TxHashTaken(d, req.txHash) THEN [thrown |-> TRUE, db |-> d]
    ELSE [ thrown |-> FALSE,
           db |-> InsertTransactionRow(d,
               [ txHash |-> req.txHash, blockNumber |-> req.blockNumber,
                 type |-> "purchase", productId |-> req.product.id,
                 fromAddress |-> req.buyerAddress,
                 toAddress |-> req.product.sellerAddress,
                 amountUSDC |-> req.product.priceUSDC,
                 platformFeeUSDC |-> IntakePlatformFee(req.product.priceUSDC) ]) ]

\* 2. UPDATE products SET total_sales + 1, total_revenue_usdc + sellerAmount
\*    WHERE id = product.id
IntakeBumpStats(d, req) ==
    [d EXCEPT !.products =
        [i \in DOMAIN @ |->
            IF i = req.product.id
            THEN [@[i] EXCEPT !.totalSales = @ + 1,
                              !.totalRevenueUSDC =
                                  @ + IntakeSellerAmount(req.product.priceUSDC)]
            ELSE @[i]]]

\* 3. one iteration of `for (const tag of product.tags)`
IntakeBumpTag(d, req) == UpsertTag(d, req.product.tags[req.k], "totalPurchases")

\* The whole handler for a receipt whose product row is i, run with nothing
\* in between.
IntakeProject(d, txHash, blockNumber, buyerAddress, i) ==
    LET req == [ txHash |-> txHash, blockNumber |-> blockNumber,
                 buyerAddress |-> buyerAddress, product |-> ProductSnapshot(d, i) ]
        ins == IntakeInsertTransaction(d, req)
    IN IF TxHashTaken(d, txHash) \/ ins.thrown THEN d
       ELSE BumpTags(IntakeBumpStats(ins.db, req), req.product.tags, 1,
                     "totalPurchases")

(***************************************************************************)
(* indexEvents, the ProductListed watcher.                                 *)
(***************************************************************************)
\* The ProductListed logs on the chain.
ListedLogs == { k \in DOMAIN logs : logs[k].kind = "ProductListed" }

\* The columns of products that carry a unique index by themselves: the
\* primary key and slug.  product_id has none (chain_product_idx is a plain
\* index on chain_id, product_id).
ProductsUniqueColumns == {"id", "slug"}

\* INSERT INTO products ... ON CONFLICT (product_id) DO UPDATE SET name, tags,
\* price_usdc, metadata_uri.  Postgres infers the arbiter index from the
\* conflict target and raises 42P10 when no unique index covers it; with one,
\* the statement would update the row of the product or insert a new row.
ListedUpsert(d, log, target) ==
    IF target \notin ProductsUniqueColumns
    THEN [thrown |-> TRUE, db |-> d]
    ELSE IF RowsOfChainProduct(d, log.id) # {}
    THEN [thrown |-> FALSE,
          db |-> [d EXCEPT !.products =
                    [i \in DOMAIN @ |->
                        IF @[i].productId = log.id
                        THEN [@[i] EXCEPT !.name = log.name, !.tags = log.tags,
                                          !.priceUSDC = CentsOfMinor(log.priceUSDC)]
                        ELSE @[i]]]]
    ELSE [thrown |-> FALSE,
          db |-> [d EXCEPT !.products =
                    Append(@, [ id |-> Len(@) + 1, productId |-> log.id,
                                sellerAddress |-> log.seller, name |-> log.name,
                                tags |-> log.tags,
                                priceUSDC |-> CentsOfMinor(log.priceUSDC),
                                totalSales |-> 0, totalRevenueUSDC |-> 0,
                                avgRating |-> NoRating, totalReviews |-> 0,
                                deprecated |-> FALSE ])]]

\* INSERT INTO transactions (type 'listing') ... ON CONFLICT DO NOTHING
ListedInsertTransaction(d, log) ==
    IF TxHashTaken(d, log.tx) THEN d
    ELSE InsertTransactionRow(d,
            [ txHash |-> log.tx, blockNumber |-> log.blockNumber,
              type |-> "listing", productId |-> NoRow,
              fromAddress |-> log.seller, toAddress |-> ZeroAddress,
              amountUSDC |-> 0, platformFeeUSDC |-> 0 ])

\* The logs of the set S, in log order.
RECURSIVE LogsInOrder(_)
LogsInOrder(S) ==
    IF S = {} THEN <<>>
    ELSE LET k == CHOOSE x \in S : \A y \in S : x <= y
         IN <<logs[k]>> \o LogsInOrder(S \ {k})

(***************************************************************************)
(* Mirror transitions: one database statement each.                        *)
(***************************************************************************)
MirrorInit ==
    /\ db = [ products |-> <<>>, transactions |-> <<>>,
              tagAnalytics |-> <<>>, sellers |-> <<>> ]
    /\ follower = [pc |-> "idle"]
    /\ deliveries = <<>>
    /\ requests = <<>>
    /\ received = 0
    /\ lister = [pc |-> "idle"]
    /\ watchFrom = 0
    /\ errors = 0
    /\ delivery = [ pc |-> "idle", status |-> "none", id |-> Uuid(1),
                    buyerAddress |-> NoAddress, productId |-> UnknownProductId,
                    released |-> FALSE ]

\* The ProductPurchased logs on the chain.
PurchaseLogs == { k \in DOMAIN logs : logs[k].kind = "ProductPurchased" }

\* Times the log of transaction tx was handed to onLogs.
DeliveriesOf(tx) == IF tx \in DOMAIN deliveries THEN deliveries[tx] ELSE 0

RECURSIVE SumOver(_, _)
SumOver(f, S) ==
    IF S = {} THEN 0
    ELSE LET x == CHOOSE y \in S : TRUE IN f[x] + SumOver(f, S \ {x})

TotalDeliveries == SumOver(deliveries, DOMAIN deliveries)

\* Calls into the mirror's writers so far.
MirrorCalls == Len(db.products) + TotalDeliveries + received

CreateProduct ==
    \E productId \in DOMAIN ouro.products :
        /\ MirrorCalls < MaxMirrorCalls
        /\ db' = createProduct(db, ouro.products[productId])
        /\ UNCHANGED <<ledgerVars, sideVars, follower, deliveries, requests, received, auxVars>>

\* onLogs is called with a log (the first time, or once more).
FollowerDeliver ==
    \E k \in PurchaseLogs :
        /\ follower.pc = "idle"
        /\ logs[k].blockNumber > watchFrom
        /\ MirrorCalls < MaxMirrorCalls
        /\ follower' = [pc |-> "stats", log |-> logs[k]]
        /\ deliveries' = [t \in DOMAIN deliveries \cup {logs[k].tx} |->
                             DeliveriesOf(t) + (IF t = logs[k].tx THEN 1 ELSE 0)]
        /\ UNCHANGED <<ledgerVars, sideVars, db, requests, received, auxVars>>

FollowerStats ==
    /\ follower.pc = "stats"
    /\ db' = FollowerUpdateStats(db, follower.log)
    /\ follower' = [follower EXCEPT !.pc = "find"]
    /\ UNCHANGED <<ledgerVars, sideVars, deliveries, requests, received, auxVars>>

FollowerFind ==
    /\ follower.pc = "find"
    /\ \E p \in (IF RowsOfChainProduct(db, follower.log.productId) = {}
                 THEN {NoRow}
                 ELSE RowsOfChainProduct(db, follower.log.productId)) :
          follower' = [pc |-> "insert", log |-> follower.log, p |-> p]
    /\ UNCHANGED <<ledgerVars, sideVars, db, deliveries, requests, received, auxVars>>

FollowerInsert ==
    /\ follower.pc = "insert"
    /\ db' = FollowerInsertTransaction(db, follower.log, follower.p)
    /\ follower' = [pc |-> "seller", log |-> follower.log]
    /\ UNCHANGED <<ledgerVars, sideVars, deliveries, requests, received, auxVars>>

FollowerSeller ==
    /\ follower.pc = "seller"
    /\ db' = FollowerUpsertSeller(db, follower.log)
    /\ follower' = [pc |-> "idle"]
    /\ UNCHANGED <<ledgerVars, sideVars, deliveries, requests, received, auxVars>>

\* A transaction hash no transaction of the chain has.
ForgedTx == 0

\* What a caller may post: any hash, the uuid of a row (of the first row to
\* come, while there is none),
\* any buyer address.  A body missing a field is answered 400 before any
\* statement runs and is no request here.
TxHashInputs == { logs[k].tx : k \in PurchaseLogs } \cup {ForgedTx}

IdInputs ==
    { Uuid(i) : i \in 1..(IF db.products = <<>> THEN 1 ELSE Len(db.products)) }

\* The request has been answered: it leaves the requests in flight.
Responded(r) == [k \in 1..(Len(requests) - 1) |->
                    IF k < r THEN requests[k] ELSE requests[k + 1]]

IntakeReceive ==
    \E txHash \in TxHashInputs, id \in IdInputs, buyerAddress \in Users :
        /\ MirrorCalls < MaxMirrorCalls
        /\ received' = received + 1
        /\ requests' = Append(requests,
                          [ txHash |-> txHash, blockNumber |-> BlockOf(txHash),
                            buyerAddress |-> buyerAddress, id |-> id,
                            pc |-> "existing", product |-> NoProduct, k |-> 0 ])
        /\ UNCHANGED <<ledgerVars, sideVars, db, follower, deliveries, auxVars>>

IntakeExisting ==
    \E r \in DOMAIN requests :
        /\ requests[r].pc = "existing"
        /\ requests' = IF TxHashTaken(db, requests[r].txHash)
                        THEN Responded(r)
                        ELSE [requests EXCEPT ![r].pc = "find"]
        /\ UNCHANGED <<ledgerVars, sideVars, db, follower, deliveries, received, auxVars>>

IntakeFind ==
    \E r \in DOMAIN requests :
        /\ requests[r].pc = "find"
        /\ \/ /\ RowsOfIdParam(db, requests[r].id) = {}
              /\ requests' = Responded(r)
           \/ \E i \in RowsOfIdParam(db, requests[r].id) :
                 requests' = [requests EXCEPT ![r] =
                                [@ EXCEPT !.pc = "insert",
                                          !.product = ProductSnapshot(db, i)]]
        /\ UNCHANGED <<ledgerVars, sideVars, db, follower, deliveries, received, auxVars>>

IntakeInsert ==
    \E r \in DOMAIN requests :
        /\ requests[r].pc = "insert"
        /\ LET ins == IntakeInsertTransaction(db, requests[r])
           IN /\ db' = ins.db
              /\ requests' = IF ins.thrown THEN Responded(r)
                              ELSE [requests EXCEPT ![r].pc = "stats"]
        /\ UNCHANGED <<ledgerVars, sideVars, follower, deliveries, received, auxVars>>

IntakeStats ==
    \E r \in DOMAIN requests :
        /\ requests[r].pc = "stats"
        /\ db' = IntakeBumpStats(db, requests[r])
        /\ requests' = [requests EXCEPT ![r] = [@ EXCEPT !.pc = "tags", !.k = 1]]
        /\ UNCHANGED <<ledgerVars, sideVars, follower, deliveries, received, auxVars>>

IntakeTag ==
    \E r \in DOMAIN requests :
        /\ requests[r].pc = "tags"
        /\ db' = IntakeBumpTag(db, requests[r])
        /\ requests' = IF requests[r].k = Len(requests[r].product.tags)
                        THEN Responded(r)
                        ELSE [requests EXCEPT ![r].k = @ + 1]
        /\ UNCHANGED <<ledgerVars, sideVars, follower, deliveries, received, auxVars>>

\* A statement of the route throws (the store is unavailable): the catch
\* block logs the error and answers 500; nothing the request wrote before is
\* undone, no statement being inside a database transaction.
IntakeFail ==
    \E r \in DOMAIN requests :
        /\ requests' = Responded(r)
        /\ errors' = errors + 1
        /\ UNCHANGED <<ledgerVars, sideVars, db, follower, deliveries, received, lister,
                       watchFrom, delivery>>

\* A statement of the ProductPurchased handler throws (the store is
\* unavailable).  There is no try/catch in the loop and no retry: the onLogs
\* promise rejects, the rest of the call is abandoned and the watcher goes on
\* with the logs that come next.
FollowerFail ==
    /\ follower.pc \in {"stats", "find", "insert", "seller"}
    /\ follower' = [pc |-> "idle"]
    /\ errors' = errors + 1
    /\ UNCHANGED <<ledgerVars, sideVars, db, deliveries, requests, received, lister,
                   watchFrom, delivery>>

\* The indexer process stops: the calls in flight are lost.  Nothing of its
\* progress is stored.
IndexerStop ==
    /\ follower.pc # "down"
    /\ follower' = [pc |-> "down"]
    /\ lister' = [pc |-> "down"]
    /\ UNCHANGED <<ledgerVars, sideVars, db, deliveries, requests, received, watchFrom,
                   errors, delivery>>

\* The indexer process starts: watchEvent is called without fromBlock, so
\* the watchers see the logs of the blocks after the current one.
IndexerStart ==
    /\ follower.pc = "down"
    /\ follower' = [pc |-> "idle"]
    /\ lister' = [pc |-> "idle"]
    /\ watchFrom' = BlockOf(txCount)
    /\ UNCHANGED <<ledgerVars, sideVars, db, deliveries, requests, received, errors,
                   delivery>>

\* onLogs of the ProductListed watcher is called with a batch of logs (each
\* for the first time, or once more).
ListerDeliver ==
    \E S \in SUBSET { k \in ListedLogs : logs[k].blockNumber > watchFrom } :
        /\ S # {}
        /\ lister.pc = "idle"
        /\ MirrorCalls + Cardinality(S) <= MaxMirrorCalls
        /\ lister' = [pc |-> "upsert", batch |-> LogsInOrder(S), k |-> 1]
        /\ deliveries' =
              [t \in DOMAIN deliveries \cup { logs[k].tx : k \in S } |->
                  DeliveriesOf(t) + (IF t \in { logs[k].tx : k \in S } THEN 1 ELSE 0)]
        /\ UNCHANGED <<ledgerVars, sideVars, db, follower, requests, received, watchFrom,
                       errors, delivery>>

\* One iteration of `for (const log of logs)`: the upsert of the product
\* row, then the listing's transactions row.  A statement that throws
\* rejects the onLogs promise: the logs left in the batch are not looked at.
ListerUpsert ==
    /\ lister.pc = "upsert"
    /\ LET log == lister.batch[lister.k]
           up == ListedUpsert(db, log, "productId")
       IN IF up.thrown
          THEN /\ lister' = [pc |-> "idle"]
               /\ errors' = errors + 1
               /\ db' = up.db
          ELSE /\ db' = ListedInsertTransaction(up.db, log)
               /\ lister' = IF lister.k = Len(lister.batch)
                            THEN [pc |-> "idle"]
                            ELSE [lister EXCEPT !.k = @ + 1]
               /\ errors' = errors
    /\ UNCHANGED <<ledgerVars, sideVars, follower, deliveries, requests, received,
                   watchFrom, delivery>>

ListerNext == ListerDeliver \/ ListerUpsert

(***************************************************************************)
(* POST /api/products/[id]/deliver                                         *)
(***************************************************************************)
\* The request in flight at statement pc, nothing answered yet.
DeliveryAt(pc, id, buyerAddress, productId) ==
    [ pc |-> pc, status |-> "pending", id |-> id, buyerAddress |-> buyerAddress,
      productId |-> productId, released |-> FALSE ]

\* The response: its status, and whether its body is the delivery payload
\* (productId, downloadUrl, apiKey) of the product read.
DeliveryAnswer(req, status) ==
    [req EXCEPT !.pc = "idle", !.status = status, !.released = (status = "200")]

DeliverReceive ==
    \E id \in IdInputs, buyerAddress \in Users \cup {NoAddress} :
        /\ delivery.pc = "idle"
        /\ delivery' =
              IF buyerAddress = NoAddress
              THEN DeliveryAnswer(
                       DeliveryAt("idle", id, buyerAddress, UnknownProductId), "400")
              ELSE DeliveryAt("find", id, buyerAddress, UnknownProductId)
        /\ UNCHANGED <<ledgerVars, sideVars, db, follower, deliveries, requests, received,
                       lister, watchFrom, errors>>

\* db.query.products.findFirst(where id = :id OR product_id = :id)
DeliverFind ==
    /\ delivery.pc = "find"
    /\ \/ /\ RowsOfIdParam(db, delivery.id) = {}
          /\ delivery' = DeliveryAnswer(delivery, "404")
       \/ \E i \in RowsOfIdParam(db, delivery.id) :
             delivery' = [delivery EXCEPT !.pc = "verify",
                                          !.productId = db.products[i].productId]
    /\ UNCHANGED <<ledgerVars, sideVars, db, follower, deliveries, requests, received,
                   lister, watchFrom, errors>>

\* publicClient.readContract hasUserPurchased(buyerAddress, product.productId)
DeliverVerify ==
    /\ delivery.pc = "verify"
    /\ delivery' =
          IF hasUserPurchased(ouro, delivery.buyerAddress, delivery.productId)
          THEN DeliveryAnswer(delivery, "200")
          ELSE DeliveryAnswer(delivery, "402")
    /\ UNCHANGED <<ledgerVars, sideVars, db, follower, deliveries, requests, received,
                   lister, watchFrom, errors>>

\* The lookup or the ledger read throws: the catch block answers 500.
DeliverFail ==
    /\ delivery.pc \in {"find", "verify"}
    /\ delivery' = DeliveryAnswer(delivery, "500")
    /\ UNCHANGED <<ledgerVars, sideVars, db, follower, deliveries, requests, received,
                   lister, watchFrom, errors>>

DeliverNext == DeliverReceive \/ DeliverFind \/ DeliverVerify \/ DeliverFail

FollowerNext ==
    FollowerDeliver \/ FollowerStats \/ FollowerFind \/ FollowerInsert
        \/ FollowerSeller

IntakeNext ==
    IntakeReceive \/ IntakeExisting \/ IntakeFind \/ IntakeInsert
        \/ IntakeStats \/ IntakeTag

ListProduct ==
    /\ ListProductWithin(MaxTx, Listings(Prices) \cup BadListings)
    /\ UNCHANGED mirrorVars

Purchase == PurchaseWithin(MaxTx) /\ UNCHANGED mirrorVars

DeprecateProduct == DeprecateWithin(MaxTx) /\ UNCHANGED mirrorVars

LeaveReview == LeaveReviewWithin(MaxTx) /\ UNCHANGED mirrorVars

UpdateTreasury == UpdateTreasuryWithin(MaxTx) /\ UNCHANGED mirrorVars

EmergencyWithdraw == EmergencyWithdrawWithin(MaxTx) /\ UNCHANGED mirrorVars

LedgerNext ==
    ListProduct \/ Purchase \/ DeprecateProduct \/ LeaveReview
        \/ UpdateTreasury \/ EmergencyWithdraw

\* The transactions the mirror can see: committed listings and purchases.
\* A reverted call leaves no storage change and no log.
MirroredList ==
    /\ ListProductWithin(MaxMirroredTx, Listings(MirroredPrices))
    /\ lastReceipt'.status = "ok"
    /\ UNCHANGED mirrorVars

MirroredPurchase ==
    /\ PurchaseWithin(MaxMirroredTx)
    /\ lastReceipt'.status = "ok"
    /\ UNCHANGED mirrorVars

(***************************************************************************)
(* Subscription billing: POST /api/subscribe, POST /api/webhooks/coinbase  *)
(* and GET /api/subscription/:address over the subscriptions table.  Time  *)
(* is counted in days.                                                     *)
(***************************************************************************)
\* const THIRTY_DAYS = 30 * 24 * 60 * 60 * 1000, in days.
THIRTY_DAYS == 30

\* The last day the clock reaches.
MaxNow == 32

\* Payment links POST /api/subscribe may create.
MaxLinks == 2

\* expires_at of a row that was never activated (NULL).
NoDate == 0 - 1

\* An event that carries no payment-link id.
NoLink == 0

\* The wallet addresses subscribers send, as typed.
SubscriberAddresses == {"0xab", "0xAB"}

\* String.prototype.toLowerCase on these addresses.
ToLowerCase(a) == IF a = "0xAB" THEN "0xab" ELSE a

BillingInit ==
    /\ subscriptions = {}
    /\ now = 0
    /\ links = 0
    /\ paidLinks = {}
    /\ response = [route |-> "none", status |-> 0, active |-> FALSE]

\* The rows of a status held for an address.
SubscriptionsOf(addr, status) ==
    { s \in subscriptions : s.address = addr /\ s.status = status }

\* select ... where payment_link_id = linkId limit 1
SubscriptionOfLink(linkId) == { s \in subscriptions : s.paymentLinkId = linkId }

\* POST /api/subscribe: 409 for an address with an active row, 500 when the
\* payment link cannot be created, else the address's pending rows are
\* wiped and a pending row is inserted for the new link.
Subscribe ==
    \E address \in SubscriberAddresses, linkCreated \in BOOLEAN :
        LET addr == ToLowerCase(address) IN
        /\ links < MaxLinks
        /\ IF SubscriptionsOf(addr, "active") # {}
           THEN /\ response' = [route |-> "subscribe", status |-> 409, active |-> FALSE]
                /\ UNCHANGED <<subscriptions, links>>
           ELSE IF ~linkCreated
           THEN /\ response' = [route |-> "subscribe", status |-> 500, active |-> FALSE]
                /\ UNCHANGED <<subscriptions, links>>
           ELSE /\ links' = links + 1
                /\ subscriptions' =
                      (subscriptions \ SubscriptionsOf(addr, "pending"))
                        \cup { [ id |-> Uuid(links + 1), address |-> addr,
                                 tier |-> "analyst", status |-> "pending",
                                 paymentMethod |-> "", paymentLinkId |-> links + 1,
                                 expiresAt |-> NoDate ] }
                /\ response' = [route |-> "subscribe", status |-> 200, active |-> FALSE]
        /\ UNCHANGED <<coreVars, now, paidLinks, agent>>

\* The customer pays a payment link; Coinbase has a
\* payment_link.payment.success event to deliver from now on.
PayLink ==
    \E linkId \in 1..links :
        /\ linkId \notin paidLinks
        /\ paidLinks' = paidLinks \cup {linkId}
        /\ UNCHANGED <<coreVars, subscriptions, now, links, response, agent>>

\* The row the webhook's update statement leaves for a subscription.
Activated(sub) ==
    [sub EXCEPT !.status = "active", !.paymentMethod = "usdc",
                !.expiresAt = now + THIRTY_DAYS]

\* The table after POST /api/webhooks/coinbase handled a validly signed
\* payment_link.payment.success event of a payment link.
WebhookActivate(linkId) ==
    IF SubscriptionOfLink(linkId) = {} THEN subscriptions
    ELSE LET sub == CHOOSE s \in SubscriptionOfLink(linkId) : TRUE
         IN IF sub.status = "active" THEN subscriptions
            ELSE (subscriptions \ {sub}) \cup {Activated(sub)}

\* The response of that request.
WebhookStatus(linkId) ==
    IF linkId = NoLink THEN 400
    ELSE IF SubscriptionOfLink(linkId) = {} THEN 404
    ELSE 200

\* POST /api/webhooks/coinbase delivering the success event of a paidLinks link;
\* Coinbase may deliver it any number of times.
WebhookSuccess(linkId) ==
    /\ linkId \in paidLinks
    /\ subscriptions' = WebhookActivate(linkId)
    /\ response' = [route |-> "webhook", status |-> WebhookStatus(linkId),
                    active |-> FALSE]
    /\ UNCHANGED <<coreVars, now, links, paidLinks, agent>>

\* POST /api/webhooks/coinbase with a bad signature (401), an event of
\* another type (200) or a success event without a link id (400).
WebhookOther ==
    \E signed \in BOOLEAN, eventType \in {"payment_link.payment.success",
                                          "payment_link.payment.failed"} :
        /\ response' = [route |-> "webhook",
                        status |-> IF ~signed THEN 401
                                   ELSE IF eventType # "payment_link.payment.success"
                                   THEN 200 ELSE WebhookStatus(NoLink),
                        active |-> FALSE]
        /\ UNCHANGED <<coreVars, subscriptions, now, links, paidLinks, agent>>

\* GET /api/subscription/:address: the address's active row, downgraded on
\* read when its expiry lies in the past.
SubscriptionGet ==
    \E address \in SubscriberAddresses :
        LET addr == ToLowerCase(address) IN
        /\ IF SubscriptionsOf(addr, "active") = {}
           THEN /\ response' = [route |-> "subscription", status |-> 200,
                                active |-> FALSE]
                /\ UNCHANGED subscriptions
           ELSE LET sub == CHOOSE s \in SubscriptionsOf(addr, "active") : TRUE
                IN IF sub.expiresAt # NoDate /\ sub.expiresAt < now
                   THEN /\ subscriptions' =
                              (subscriptions \ {sub})
                                \cup {[sub EXCEPT !.status = "expired"]}
                        /\ response' = [route |-> "subscription", status |-> 200,
                                        active |-> FALSE]
                   ELSE /\ response' = [route |-> "subscription", status |-> 200,
                                        active |-> TRUE]
                        /\ UNCHANGED subscriptions
        /\ UNCHANGED <<coreVars, now, links, paidLinks, agent>>

\* Time passes: a day, or a subscription period.
Tick ==
    \E days \in {1, THIRTY_DAYS} :
        /\ now + days <= MaxNow
        /\ now' = now + days
        /\ UNCHANGED <<coreVars, subscriptions, links, paidLinks, response, agent>>

BillingNext ==
    Subscribe \/ PayLink \/ (\E linkId \in paidLinks : WebhookSuccess(linkId))
        \/ WebhookOther \/ SubscriptionGet \/ Tick

(***************************************************************************)
(* The SDK: OuroAgent.callPremiumEndpoint, one invocation at a time.  The  *)
(* wallet's funds are counted in purchases of the endpoint's product.      *)
(***************************************************************************)
\* Purchases the agent's wallet can pay for.
AgentFunds == 5

\* No x-payment-tx header.
NoPaymentTx == 0

AgentInit ==
    agent = [ pc |-> "idle", walletClient |-> FALSE, depth |-> 0,
              purchases |-> 0, funds |-> AgentFunds, paymentTx |-> NoPaymentTx,
              status |-> 0, outcome |-> "none" ]

\* agent.callPremiumEndpoint(url), by an agent configured with or without a
\* private key.
AgentCall ==
    \E privateKey \in BOOLEAN :
        /\ agent.pc = "idle"
        /\ agent' = [agent EXCEPT !.pc = "fetch", !.walletClient = privateKey,
                                  !.depth = 0, !.purchases = 0,
                                  !.paymentTx = NoPaymentTx, !.status = 0,
                                  !.outcome = "none"]
        /\ UNCHANGED <<coreVars, billingVars>>

\* The call after a successful auto-payment: return this.callPremiumEndpoint
\* with the payment headers.
RetryWithProof(a) == [a EXCEPT !.pc = "fetch", !.depth = @ + 1]

\* await fetch(url): the endpoint answers 200, 402 or 500.  402 leads to the
\* auto-purchase when a wallet client is configured and throws otherwise; any
\* other non-ok status throws; 200 returns the body.
AgentFetch ==
    \E status \in {200, 402, 500} :
        /\ agent.pc = "fetch"
        /\ agent' =
              IF status = 402 /\ agent.walletClient
              THEN [agent EXCEPT !.pc = "pay", !.status = status]
              ELSE [agent EXCEPT !.pc = "idle", !.status = status,
                                 !.outcome = IF status = 200 THEN "returned"
                                             ELSE "threw"]
        /\ UNCHANGED <<coreVars, billingVars>>

\* this.purchase(paymentInfo.productId, {skipVerification: true}): the
\* approve and purchase transactions, which throw when the wallet cannot pay,
\* then the delivery request.  A delivered purchase retries the endpoint; an
\* undelivered one has paid and throws.
AgentPurchase ==
    \E delivered \in BOOLEAN :
        /\ agent.pc = "pay"
        /\ agent' =
              IF agent.funds = 0
              THEN [agent EXCEPT !.pc = "idle", !.outcome = "threw"]
              ELSE LET bought == [agent EXCEPT !.funds = @ - 1,
                                               !.purchases = @ + 1,
                                               !.paymentTx = AgentFunds - agent.funds + 1]
                   IN IF delivered THEN RetryWithProof(bought)
                      ELSE [bought EXCEPT !.pc = "idle", !.outcome = "threw"]
        /\ UNCHANGED <<coreVars, billingVars>>

AgentNext == AgentCall \/ AgentFetch \/ AgentPurchase

Init == LedgerInit /\ MirrorInit /\ BillingInit /\ AgentInit

Next ==
    MirroredList \/ MirroredPurchase \/ CreateProduct \/ FollowerNext
        \/ IntakeNext

\* The ledger's committed listings and purchases, the indexer and the two
\* API routes over one mirror.
Spec == Init /\ [][Next]_vars

\* The contract alone, reverted calls included.
LedgerSpec == Init /\ [][LedgerNext]_vars

\* The subscription routes, the payment provider and the clock.
BillingSpec == Init /\ [][BillingNext]_vars

\* The SDK's premium-endpoint call against an endpoint that answers as it
\* likes.
AgentSpec == Init /\ [][AgentNext]_vars

\* The ledger and the API routes, the indexer not running.
IntakeSpec ==
    Init /\ [][MirroredList \/ MirroredPurchase \/ CreateProduct \/ IntakeNext]_vars

\* The ledger and the API routes whose statements may throw, the indexer not
\* running.
RetrySpec ==
    Init /\ [][MirroredList \/ MirroredPurchase \/ CreateProduct \/ IntakeNext
                 \/ IntakeFail]_vars

\* The ledger and the indexer's purchase watcher, whose statements may throw.
FailureSpec ==
    Init /\ [][MirroredList \/ MirroredPurchase \/ CreateProduct \/ FollowerNext
                 \/ FollowerFail]_vars

\* The ledger and the indexer's purchase watcher, the process stopping and
\* starting.
RestartSpec ==
    Init /\ [][MirroredList \/ MirroredPurchase \/ CreateProduct \/ FollowerNext
                 \/ IndexerStop \/ IndexerStart]_vars

\* Ledger transactions the indexer and the search route can follow.
MaxFollowedTx == 3

\* Committed calls of the four lifecycle functions.
FollowedList ==
    /\ ListProductWithin(MaxFollowedTx, Listings(MirroredPrices))
    /\ lastReceipt'.status = "ok"
    /\ UNCHANGED mirrorVars

FollowedPurchase ==
    /\ PurchaseWithin(MaxFollowedTx)
    /\ lastReceipt'.status = "ok"
    /\ UNCHANGED mirrorVars

FollowedReview ==
    /\ LeaveReviewWithin(MaxFollowedTx)
    /\ lastReceipt'.status = "ok"
    /\ UNCHANGED mirrorVars

FollowedDeprecate ==
    /\ DeprecateWithin(MaxFollowedTx)
    /\ lastReceipt'.status = "ok"
    /\ UNCHANGED mirrorVars

\* The ledger's committed calls, the create route and the indexer's two
\* watchers.
IndexerSpec ==
    Init /\ [][FollowedList \/ FollowedPurchase \/ FollowedReview
                 \/ FollowedDeprecate \/ CreateProduct \/ ListerNext
                 \/ FollowerNext]_vars

\* The ledger's committed listings and purchases, the create route and the
\* delivery route.
DeliverySpec ==
    Init /\ [][MirroredList \/ MirroredPurchase \/ CreateProduct
                 \/ DeliverNext]_vars

\* updateTreasury by the owner, to another wallet or to the contract's own
\* address: the function refuses the zero address only.
UpdateTreasuryToAny ==
    /\ \E newTreasury \in {NewTreasury, ContractAddress} :
          /\ txCount < MaxTx
          /\ MinedWith(updateTreasury(World, txCount + 1, Owner, newTreasury),
                       "updateTreasury", Owner, UnknownProductId,
                       [newTreasury |-> newTreasury])
    /\ UNCHANGED mirrorVars

\* Listings and purchases under any treasury the owner may set.
TreasurySpec == Init /\ [][ListProduct \/ Purchase \/ UpdateTreasuryToAny]_vars

\* Reviews left after committed listings and purchases.
LeaveReviewAfterSale == LeaveReviewWithin(MaxReviewTx) /\ UNCHANGED mirrorVars

ReviewSpec ==
    Init /\ [][MirroredList \/ MirroredPurchase \/ LeaveReviewAfterSale]_vars

(***************************************************************************)
(* Properties                                                              *)
(***************************************************************************)
\* No handler is between two of its statements.
Quiescent == follower.pc = "idle" /\ requests = <<>>

\* The transactions rows of type purchase that reference product row i.
PurchaseRowsOf(i) ==
    { k \in DOMAIN db.transactions :
        /\ db.transactions[k].type = "purchase"
        /\ db.transactions[k].productId = i }

RowsOfTx(txHash) ==
    { k \in DOMAIN db.transactions : db.transactions[k].txHash = txHash }

\* The ledger's Purchased events a transactions row agrees with: same
\* transaction, same buyer, same product.
LedgerFactsOf(row) ==
    { k \in PurchaseLogs :
        /\ logs[k].tx = row.txHash
        /\ logs[k].buyer = row.fromAddress
        /\ \/ row.productId = NoRow
           \/ db.products[row.productId].productId = logs[k].productId }

\* Every purchase row of the mirror states a purchase the ledger holds.
RowsTruthful ==
    \A k \in DOMAIN db.transactions : LedgerFactsOf(db.transactions[k]) # {}

\* A transaction just mined, by its receipt.
JustMined(op) == lastReceipt'.tx # lastReceipt.tx /\ lastReceipt'.op = op

\* C1: when one purchase is projected by both the Follower and the Intake
\* route, the mirror holds exactly one row for its transaction and the
\* product's counters are incremented exactly once: with every log delivered
\* at most once and every row stating a real purchase, a quiescent mirror
\* counts no more sales of a product than the ledger does.
C1_BothPathsCountOnce ==
    (Quiescent /\ RowsTruthful /\ \A tx \in DOMAIN deliveries : deliveries[tx] <= 1)
        => \A i \in DOMAIN db.products :
              /\ db.products[i].totalSales
                    <= ProductAt(ouro, db.products[i].productId).totalSales
              /\ \A k \in PurchaseRowsOf(i) :
                    Cardinality(RowsOfTx(db.transactions[k].txHash)) = 1

\* C2: ordering-independence.  From any mirror state, projecting one purchase
\* through the Follower and then the Intake route leaves the same purchase
\* rows and the same product counters as the Intake route and then the
\* Follower.
C2_OrderIndependent ==
    \A k \in PurchaseLogs :
        \A i \in RowsOfChainProduct(db, logs[k].productId) :
            LET log == logs[k]
                followerFirst ==
                    IntakeProject(FollowerProject(db, log, i), log.tx,
                                  log.blockNumber, log.buyer, i)
                intakeFirst ==
                    FollowerProject(
                        IntakeProject(db, log.tx, log.blockNumber, log.buyer, i),
                        log, i)
            IN /\ followerFirst.products = intakeFirst.products
               /\ followerFirst.transactions = intakeFirst.transactions

\* C3: Follower idempotence.  With the Intake route unused, a product's sale
\* counter in the mirror is at most the number of distinct Purchased events of
\* that product delivered to the Follower: a re-delivery changes no counter.
C3_FollowerIdempotent ==
    (received = 0 /\ follower.pc = "idle")
        => \A i \in DOMAIN db.products :
              db.products[i].totalSales
                <= Cardinality({ k \in PurchaseLogs :
                                   /\ logs[k].productId = db.products[i].productId
                                   /\ logs[k].tx \in DOMAIN deliveries })

\* C4: Intake idempotence.  With only the Intake route writing, there is at
\* most one transactions row per txHash, a product's totalSales and
\* totalRevenue count each of its rows at most once, and a tag's purchase
\* counter counts each row of a product carrying the tag at most once,
\* however the requests interleave; when no request is in flight the counters
\* count each row exactly once.
C4_IntakeIdempotent ==
    /\ \A a, b \in DOMAIN db.transactions :
          db.transactions[a].txHash = db.transactions[b].txHash => a = b
    /\ \A i \in DOMAIN db.products :
          LET n == Cardinality(PurchaseRowsOf(i))
              row == db.products[i]
          IN /\ row.totalSales <= n
             /\ row.totalRevenueUSDC = row.totalSales * IntakeSellerAmount(row.priceUSDC)
             /\ requests = <<>> => row.totalSales = n
    /\ \A tag \in DOMAIN db.tagAnalytics :
          db.tagAnalytics[tag].totalPurchases
            <= Cardinality({ k \in DOMAIN db.transactions :
                  /\ db.transactions[k].productId # NoRow
                  /\ \E j \in DOMAIN db.products[db.transactions[k].productId].tags :
                        db.products[db.transactions[k].productId].tags[j] = tag })

\* C4 witness: a second request for a receipt already recorded and counted
\* has passed the idempotency guard and is about to insert.
C4_Witness ==
    \E r \in DOMAIN requests :
        /\ requests[r].pc = "insert"
        /\ TxHashTaken(db, requests[r].txHash)
        /\ db.products[requests[r].product.id].totalSales = 1

\* C5: at most one transactions row per transaction hash, whatever Follower
\* deliveries and Intake submissions produced the state.
C5_OneRowPerTxHash ==
    \A a, b \in DOMAIN db.transactions :
        db.transactions[a].txHash = db.transactions[b].txHash => a = b

\* C5 witness: the Follower has run its insert for a log delivered a second
\* time, and the mirror holds one row for that transaction.
C5_Witness ==
    /\ follower.pc = "seller"
    /\ DeliveriesOf(follower.log.tx) = 2
    /\ Cardinality(RowsOfTx(follower.log.tx)) = 1

\* C6: the Intake route records a purchase only for a finalized Purchased
\* event of the ledger with the claimed transaction, product and buyer: every
\* purchase row of the mirror states a purchase the ledger holds.
C6_IntakeVerifiesLedger == RowsTruthful

\* C7: a successful purchase of a product priced p pays floor(p * 800 / 10000)
\* to the treasury and p minus that to the seller, takes exactly p from the
\* buyer and reports the fee in the Purchased event; for p = 1,000,000 the fee
\* is 80000, the seller amount 920000 and a first purchase leaves the sale
\* counter at 1.
C7_FeeSplit ==
    [][ (JustMined("purchase") /\ lastReceipt'.status = "ok") =>
          LET productId == lastReceipt'.productId
              product == ouro.products[productId]
              p == product.priceUSDC
              fee == (p * 800) \div 10000
              event == logs'[Len(logs') - 1]
          IN /\ usdc'[ouro.treasury] - usdc[ouro.treasury] = fee
             /\ usdc'[product.seller] - usdc[product.seller] = p - fee
             /\ usdc[lastReceipt'.sender] - usdc'[lastReceipt'.sender] = p
             /\ usdc'[ContractAddress] = usdc[ContractAddress]
             /\ event.kind = "ProductPurchased" /\ event.platformFee = fee
             /\ event.priceUSDC = p
             /\ p = 1000000 =>
                  /\ fee = 80000
                  /\ usdc'[product.seller] - usdc[product.seller] = 920000
                  /\ product.totalSales = 0
                        => ouro'.products[productId].totalSales = 1
      ]_vars

\* C7 witness: the $1.00 product was bought once.
C7_Witness ==
    /\ lastReceipt.op = "purchase" /\ lastReceipt.status = "ok"
    /\ ouro.products[lastReceipt.productId].priceUSDC = 1000000
    /\ ouro.products[lastReceipt.productId].totalSales = 1
    /\ usdc[ouro.treasury] = LISTING_FEE + 80000
    /\ usdc[Seller] = InitialBalance - LISTING_FEE + 920000

\* C8: a purchase in which a token transfer fails changes no balance, no
\* contract storage and emits no event.
C8_PurchaseAllOrNothing ==
    [][ (JustMined("purchase") /\ lastReceipt'.status = "USDCTransferFailed")
          => usdc' = usdc /\ ouro' = ouro /\ logs' = logs ]_vars

\* C8 witness: a purchase of a listed product failed on a token transfer.
C8_Witness ==
    /\ lastReceipt.op = "purchase"
    /\ lastReceipt.status = "USDCTransferFailed"
    /\ lastReceipt.productId \in DOMAIN ouro.products
    /\ usdc[ContractAddress] = 0
    /\ usdc[lastReceipt.sender] = InitialBalance

\* C9: a successful purchase adds 1 to the product's sale counter and the
\* seller amount to its revenue, sets the buyer's proof of purchase and
\* changes no other product.
C9_PurchaseEffect ==
    [][ (JustMined("purchase") /\ lastReceipt'.status = "ok") =>
          LET productId == lastReceipt'.productId
              before == ouro.products[productId]
              after == ouro'.products[productId]
              p == before.priceUSDC
          IN /\ after.totalSales = before.totalSales + 1
             /\ after.totalRevenueUSDC
                    = before.totalRevenueUSDC + (p - (p * 800) \div 10000)
             /\ <<lastReceipt'.sender, productId>> \in ouro'.hasPurchased
             /\ DOMAIN ouro'.products = DOMAIN ouro.products
             /\ \A q \in DOMAIN ouro.products \ {productId} :
                    ouro'.products[q] = ouro.products[q]
      ]_vars

\* C9 witness: a purchase succeeded while another product was listed.
C9_Witness ==
    /\ lastReceipt.op = "purchase" /\ lastReceipt.status = "ok"
    /\ Cardinality(DOMAIN ouro.products) = 2
    /\ <<Buyer, lastReceipt.productId>> \in ouro.hasPurchased

\* C10: purchase of an unknown product fails with ProductNotFound, of a
\* deprecated product with ProductIsDeprecated, of an active product by its
\* seller with CannotBuyOwnProduct (the checks in that order); a call failing
\* so moves no token and changes no ledger state.
C10_PurchasePreconditions ==
    [][ JustMined("purchase") =>
          LET productId == lastReceipt'.productId
              known == productId \in DOMAIN ouro.products
              status == lastReceipt'.status
          IN /\ ~known => status = "ProductNotFound"
             /\ (known /\ ouro.products[productId].deprecated)
                    => status = "ProductIsDeprecated"
             /\ ( /\ known
                  /\ ~ouro.products[productId].deprecated
                  /\ lastReceipt'.sender = ouro.products[productId].seller )
                    => status = "CannotBuyOwnProduct"
             /\ status \in {"ProductNotFound", "ProductIsDeprecated",
                            "CannotBuyOwnProduct"}
                    => usdc' = usdc /\ ouro' = ouro /\ logs' = logs
      ]_vars

\* C10 witness: a purchase of a deprecated product was refused.
C10_Witness ==
    /\ lastReceipt.op = "purchase"
    /\ lastReceipt.status = "ProductIsDeprecated"
    /\ ouro.products[lastReceipt.productId].deprecated

\* The ProductReviewed events of a product, by their position in the log.
ReviewLogs(productId) ==
    { k \in DOMAIN logs : /\ logs[k].kind = "ProductReviewed"
                          /\ logs[k].productId = productId }

\* The ratings accepted for a product, summed.
SumOfRatings(productId) ==
    SumOver([k \in ReviewLogs(productId) |-> logs[k].rating], ReviewLogs(productId))

\* The average stored before the review of log k was accepted, and the
\* number of reviews before it.
ReviewsBefore(k) == { j \in ReviewLogs(logs[k].productId) : j < k }

AverageBefore(k) ==
    IF ReviewsBefore(k) = {} THEN 0
    ELSE logs[CHOOSE j \in ReviewsBefore(k) :
                \A i \in ReviewsBefore(k) : i <= j].newAverageRating

\* C11: a buyer reviews a product at most once: the ledger never accepts a
\* second review of the same product by the same buyer, so no two Reviewed
\* events share product and reviewer.
C11_OneReviewPerBuyer ==
    \A productId \in DOMAIN ouro.products :
        \A j, k \in ReviewLogs(productId) :
            logs[j].reviewer = logs[k].reviewer => j = k

\* C12: a review by a caller without proof of purchase of the product fails
\* (NotProductBuyer for a rating in 1..5, InvalidRating otherwise) and leaves
\* the rating average, the review count and all other ledger state unchanged.
C12_ReviewNeedsPurchase ==
    [][ ( /\ JustMined("leaveReview")
          /\ <<lastReceipt'.sender, lastReceipt'.productId>> \notin ouro.hasPurchased )
        => /\ lastReceipt'.status \in {"NotProductBuyer", "InvalidRating"}
           /\ lastReceipt'.args.rating \in 1..5
                => lastReceipt'.status = "NotProductBuyer"
           /\ usdc' = usdc /\ ouro' = ouro /\ logs' = logs
      ]_vars

\* C12 witness: the seller's review of its own product, already reviewed by
\* its buyer, was refused.
C12_Witness ==
    /\ lastReceipt.op = "leaveReview"
    /\ lastReceipt.status = "NotProductBuyer"
    /\ lastReceipt.sender = Seller
    /\ lastReceipt.productId \in DOMAIN ouro.products
    /\ ReviewCountAt(ouro, lastReceipt.productId) = 1

C14_AverageIsMean ==
    \A productId \in DOMAIN ouro.products :
        LET n == ReviewCountAt(ouro, productId)
        IN n > 0 => RatingAt(ouro, productId)
                      = (100 * SumOfRatings(productId)) \div n

\* C15: a product with at least one review has a stored average between 100
\* times its lowest and 100 times its highest accepted rating, hence within
\* 100..500; a product with no review has average 0 and count 0.
C15_AverageBounded ==
    \A productId \in DOMAIN ouro.products :
        LET reviews == ReviewLogs(productId)
            average == RatingAt(ouro, productId)
        IN IF reviews = {}
           THEN average = 0 /\ ReviewCountAt(ouro, productId) = 0
           ELSE /\ ReviewCountAt(ouro, productId) > 0
                /\ \E k \in reviews : 100 * logs[k].rating <= average
                /\ \E k \in reviews : average <= 100 * logs[k].rating
                /\ average \in 100..500

\* C15 witness: a product reviewed three times, with ratings 1 and 2, holds
\* an average strictly between them.
C15_Witness ==
    \E productId \in DOMAIN ouro.products :
        /\ ReviewCountAt(ouro, productId) = 3
        /\ RatingAt(ouro, productId) = 166

\* C16: once a product is created no call changes its id, seller, name,
\* tags, price, metadata reference or creation time, and its record is never
\* deleted; only the sale counter, the revenue and the deprecated flag change.
C16_ProductImmutable ==
    [][ \A productId \in DOMAIN ouro.products :
          /\ productId \in DOMAIN ouro'.products
          /\ LET before == ouro.products[productId]
                 after == ouro'.products[productId]
             IN /\ after.id = before.id
                /\ after.seller = before.seller
                /\ after.name = before.name
                /\ after.tags = before.tags
                /\ after.priceUSDC = before.priceUSDC
                /\ after.metadataURI = before.metadataURI
                /\ after.listedAt = before.listedAt /\ after.listedAt # 0
      ]_vars

\* C16 witness: a product sold once and then deprecated.
C16_Witness ==
    \E productId \in DOMAIN ouro.products :
        /\ ouro.products[productId].totalSales = 1
        /\ ouro.products[productId].deprecated
        /\ ouro.products[productId].priceUSDC = 123457

\* C17: deprecation is terminal and idempotent: a deprecated product stays
\* deprecated, and a further deprecateProduct by its seller succeeds and
\* changes no contract storage (flag, counters, revenue, ratings) and no
\* balance.
C17_DeprecationTerminal ==
    [][ /\ \A productId \in DOMAIN ouro.products :
              ouro.products[productId].deprecated
                  => ouro'.products[productId].deprecated
        /\ ( /\ JustMined("deprecateProduct")
             /\ lastReceipt'.productId \in DOMAIN ouro.products
             /\ lastReceipt'.sender = ouro.products[lastReceipt'.productId].seller
             /\ ouro.products[lastReceipt'.productId].deprecated )
           => /\ lastReceipt'.status = "ok"
              /\ ouro' = ouro
              /\ usdc' = usdc
      ]_vars

\* C17 witness: the seller deprecated a product a second time.
C17_Witness ==
    /\ lastReceipt.op = "deprecateProduct" /\ lastReceipt.status = "ok"
    /\ Cardinality({ k \in DOMAIN logs :
                       /\ logs[k].kind = "ProductDeprecated"
                       /\ logs[k].productId = lastReceipt.productId }) = 2
    /\ ouro.products[lastReceipt.productId].deprecated

\* C18: deprecateProduct by a caller who is not the product's seller, or for
\* a product that does not exist, fails with NotProductOwner and changes no
\* ledger state.
C18_DeprecateOnlyBySeller ==
    [][ ( /\ JustMined("deprecateProduct")
          /\ \/ lastReceipt'.productId \notin DOMAIN ouro.products
             \/ lastReceipt'.sender # ouro.products[lastReceipt'.productId].seller )
        => /\ lastReceipt'.status = "NotProductOwner"
           /\ usdc' = usdc /\ ouro' = ouro /\ logs' = logs
      ]_vars

\* C18 witness: a deprecation of a product that does not exist was refused
\* while a product was listed.
C18_Witness ==
    /\ lastReceipt.op = "deprecateProduct"
    /\ lastReceipt.status = "NotProductOwner"
    /\ lastReceipt.productId \notin DOMAIN ouro.products
    /\ ouro.products # <<>>

\* C19: listProduct rejects an empty name and a name above 100 bytes
\* (InvalidName), no tag and more than 8 tags (InvalidTags), a price below
\* 100000 and a price above 10000 * 10^6 (InvalidPrice), checked in that
\* order; a rejected listing charges no fee, creates no product and leaves
\* totalProducts unchanged.
C19_ListingValidation ==
    [][ JustMined("listProduct") =>
          LET listing == lastReceipt'.args
              badName == Len(listing.name) = 0 \/ Len(listing.name) > 100
              badTags == Len(listing.tags) = 0 \/ Len(listing.tags) > 8
              badPrice ==
                  \/ listing.price.dollars = 0 /\ listing.price.micros < 100000
                  \/ listing.price.dollars > 10000
                  \/ listing.price.dollars = 10000 /\ listing.price.micros > 0
              status == lastReceipt'.status
          IN /\ badName => status = "InvalidName"
             /\ (~badName /\ badTags) => status = "InvalidTags"
             /\ (~badName /\ ~badTags /\ badPrice) => status = "InvalidPrice"
             /\ (badName \/ badTags \/ badPrice)
                  => /\ usdc' = usdc /\ ouro' = ouro /\ logs' = logs
                     /\ ouro'.totalProducts = ouro.totalProducts
      ]_vars

\* C19 witness: a listing one minor unit above the maximum price was rejected
\* after another listing had been accepted.
C19_Witness ==
    /\ lastReceipt.op = "listProduct"
    /\ lastReceipt.status = "InvalidPrice"
    /\ lastReceipt.args.price = Amount(MAX_PRICE_DOLLARS, 1)
    /\ ouro.totalProducts = 1

\* C20: a successful listing moves exactly LISTING_FEE (2,000,000) from the
\* seller to the treasury and nothing else, stores the submitted price and
\* adds one product; a listing whose fee transfer fails creates no product
\* and moves nothing.
C20_ListingFee ==
    [][ JustMined("listProduct") =>
          LET seller == lastReceipt'.sender
              productId == lastReceipt'.productId
              submitted == lastReceipt'.args.price
          IN /\ lastReceipt'.status = "ok" =>
                  /\ usdc[seller] - usdc'[seller] = 2000000
                  /\ usdc'[ouro.treasury] - usdc[ouro.treasury] = 2000000
                  /\ \A a \in Accounts \ {seller, ouro.treasury} : usdc'[a] = usdc[a]
                  /\ productId \notin DOMAIN ouro.products
                  /\ ouro'.products[productId].priceUSDC
                        = submitted.dollars * 1000000 + submitted.micros
                  /\ ouro'.totalProducts = ouro.totalProducts + 1
             /\ lastReceipt'.status = "USDCTransferFailed" =>
                  usdc' = usdc /\ ouro' = ouro /\ logs' = logs
      ]_vars

\* C20 witness: a second listing was accepted, each having paid the fee.
C20_Witness ==
    /\ lastReceipt.op = "listProduct" /\ lastReceipt.status = "ok"
    /\ ouro.totalProducts = 2
    /\ usdc[Seller] = InitialBalance - 2 * LISTING_FEE
    /\ ouro.products[lastReceipt.productId].priceUSDC = 123457

\* The four lifecycle calls and the event each one emits.
LifecycleOps == {"listProduct", "purchase", "leaveReview", "deprecateProduct"}

LifecycleKinds ==
    {"ProductListed", "ProductPurchased", "ProductReviewed", "ProductDeprecated"}

EventKindOf(op) ==
    CASE op = "listProduct" -> "ProductListed"
      [] op = "purchase" -> "ProductPurchased"
      [] op = "leaveReview" -> "ProductReviewed"
      [] op = "deprecateProduct" -> "ProductDeprecated"

\* The product id an event carries (ProductListed names it `id`).
ProductIdCarried(event) ==
    IF event.kind = "ProductListed" THEN event.id ELSE event.productId

\* C30: a successful listProduct, purchase, leaveReview or deprecateProduct
\* call appends exactly one lifecycle event to the log, of the kind matching
\* the call, carrying the product id and stamped with the call's transaction;
\* a call that reverts appends nothing.  (A successful call of the first
\* three also appends one GasSponsored event, which is no lifecycle event.)
C30_OneTypedEvent ==
    [][ (lastReceipt'.tx # lastReceipt.tx /\ lastReceipt'.op \in LifecycleOps) =>
          LET typed == { k \in DOMAIN logs' :
                           k > Len(logs) /\ logs'[k].kind \in LifecycleKinds }
          IN /\ Len(logs') >= Len(logs)
             /\ \A k \in DOMAIN logs : logs'[k] = logs[k]
             /\ lastReceipt'.status = "ok" =>
                  /\ Cardinality(typed) = 1
                  /\ \A k \in typed :
                        /\ logs'[k].kind = EventKindOf(lastReceipt'.op)
                        /\ ProductIdCarried(logs'[k]) = lastReceipt'.productId
                        /\ logs'[k].tx = lastReceipt'.tx
             /\ lastReceipt'.status # "ok" => logs' = logs
      ]_vars

\* C30 witness: a listing, a purchase and a review were mined, and the log
\* holds one event of each kind for the product, the review's one last.
C30_Witness ==
    /\ lastReceipt.op = "leaveReview" /\ lastReceipt.status = "ok"
    /\ \A kind \in {"ProductListed", "ProductPurchased", "ProductReviewed"} :
          Cardinality({ k \in DOMAIN logs :
                          /\ logs[k].kind = kind
                          /\ ProductIdCarried(logs[k]) = lastReceipt.productId }) = 1
    /\ \E k \in DOMAIN logs :
          logs[k].kind = "ProductReviewed" /\ logs[k].tx = lastReceipt.tx

\* The purchase rows of transaction hash txHash in mirror d, as
\* <<amount, platform fee>>.
AmountsOfTx(d, txHash) ==
    { <<d.transactions[r].amountUSDC, d.transactions[r].platformFeeUSDC>> :
        r \in { q \in DOMAIN d.transactions :
                  /\ d.transactions[q].txHash = txHash
                  /\ d.transactions[q].type = "purchase" } }

\* C27: path equivalence.  From the same mirror state, projecting a purchase
\* not yet in the mirror through the Follower alone and through the Intake
\* route alone gives the product row the same totalSales and totalRevenue and
\* the purchase row the same amounts.
C27_PathsAgree ==
    \A k \in PurchaseLogs :
        \A i \in RowsOfChainProduct(db, logs[k].productId) :
            LET log == logs[k]
                viaFollower == FollowerProject(db, log, i)
                viaIntake ==
                    IntakeProject(db, log.tx, log.blockNumber, log.buyer, i)
            IN ~TxHashTaken(db, log.tx) =>
                 /\ viaFollower.products[i].totalSales
                      = viaIntake.products[i].totalSales
                 /\ viaFollower.products[i].totalRevenueUSDC
                      = viaIntake.products[i].totalRevenueUSDC
                 /\ AmountsOfTx(viaFollower, log.tx) = AmountsOfTx(viaIntake, log.tx)

\* C28: no purchase is dropped by the Intake route.  When a request finds its
\* txHash already recorded and is answered, no other request being in flight,
\* the counters of every product row count each of its purchase rows: a
\* retry after a failure between the insert and the bump completes the
\* projection.
C28_RetryCompletes ==
    [][ \A r \in DOMAIN requests :
          ( /\ requests[r].pc = "existing"
            /\ \E k \in PurchaseLogs : logs[k].tx = requests[r].txHash
            /\ TxHashTaken(db, requests[r].txHash)
            /\ requests' = Responded(r)
            /\ errors' = errors
            /\ requests' = <<>> )
          => \A i \in DOMAIN db'.products :
                db'.products[i].totalSales = Cardinality(PurchaseRowsOf(i))
      ]_vars

\* The purchase handler is working on the log of transaction tx.
FollowerHandling(tx) ==
    follower.pc \in {"stats", "find", "insert", "seller"} /\ follower.log.tx = tx

\* C21: the Follower does not move past an event it failed to project.
\* Every ProductPurchased log that was handed to the handler, and that the
\* handler is no longer working on, has its transactions row in the mirror.
C21_NoEventPassedOver ==
    \A k \in PurchaseLogs :
        (DeliveriesOf(logs[k].tx) > 0 /\ ~FollowerHandling(logs[k].tx))
            => TxHashTaken(db, logs[k].tx)

\* C22: a restarted Follower skips no event.  Every ProductPurchased log of
\* a block at or before the one the running watchers started after is in the
\* mirror.
C22_NoEventSkipped ==
    \A k \in PurchaseLogs :
        logs[k].blockNumber <= watchFrom => TxHashTaken(db, logs[k].tx)

\* C23: a permanent failure on one event does not block later events.  When
\* the ProductListed handler is idle, and of two ProductListed logs for
\* different products that were handed to it the earlier one has left no
\* product row, the later one has its product row.
C23_LaterEventsProjected ==
    lister.pc = "idle" =>
        \A j \in ListedLogs : \A k \in ListedLogs :
            ( /\ j < k
              /\ logs[j].id # logs[k].id
              /\ DeliveriesOf(logs[j].tx) > 0
              /\ DeliveriesOf(logs[k].tx) > 0
              /\ RowsOfChainProduct(db, logs[j].id) = {} )
            => RowsOfChainProduct(db, logs[k].id) # {}

\* The indexer has nothing left to do: both handlers are idle and every
\* ProductListed and ProductPurchased log has been handed to its handler.
FollowerCaughtUp ==
    /\ follower.pc = "idle"
    /\ lister.pc = "idle"
    /\ \A k \in ListedLogs \cup PurchaseLogs : DeliveriesOf(logs[k].tx) > 0

\* POST /api/products/search and GET /api/stats: the active products.
ActiveProducts(d) == { i \in DOMAIN d.products : ~d.products[i].deprecated }

\* C24: deprecation reaches the mirror.  Once the indexer has caught up, no
\* mirror row of a product the ledger has deprecated is among the active
\* products of search and stats.
C24_DeprecatedNotActive ==
    FollowerCaughtUp =>
        \A i \in ActiveProducts(db) :
            ~ProductAt(ouro, db.products[i].productId).deprecated

\* The latest ProductReviewed log of a product (0: none).
LatestReviewOf(productId) ==
    LET S == { k \in DOMAIN logs :
                 logs[k].kind = "ProductReviewed" /\ logs[k].productId = productId }
    IN IF S = {} THEN 0 ELSE CHOOSE k \in S : \A j \in S : j <= k

\* C25: the rating aggregate reaches the mirror.  Once the indexer has
\* caught up, every mirror row of a reviewed product carries the average of
\* the product's latest ProductReviewed event and the ledger's review count.
C25_RatingMirrored ==
    FollowerCaughtUp =>
        \A i \in DOMAIN db.products :
            LET k == LatestReviewOf(db.products[i].productId)
            IN k # 0 =>
                 /\ db.products[i].avgRating = logs[k].newAverageRating
                 /\ db.products[i].totalReviews
                      = ReviewCountAt(ouro, db.products[i].productId)

\* C26: listing projection is idempotent.  When the ProductListed handler is
\* idle, every product whose ProductListed log was handed to it has exactly
\* one mirror row, carrying the listed seller, name, tags and price.
C26_OneRowPerListing ==
    lister.pc = "idle" =>
        \A k \in ListedLogs :
            DeliveriesOf(logs[k].tx) > 0 =>
                /\ Cardinality(RowsOfChainProduct(db, logs[k].id)) = 1
                /\ \A i \in RowsOfChainProduct(db, logs[k].id) :
                      /\ db.products[i].sellerAddress = logs[k].seller
                      /\ db.products[i].name = logs[k].name
                      /\ db.products[i].tags = logs[k].tags
                      /\ db.products[i].priceUSDC = CentsOfMinor(logs[k].priceUSDC)

\* The delivery route answers in this step.
DeliveryAnswered == delivery' # delivery /\ delivery'.pc = "idle"

\* The ledger's proof-of-purchase for the buyer and the product of the
\* answer.
ProofOfPurchase(answer) == <<answer.buyerAddress, answer.productId>> \in ouro.hasPurchased

\* C29 as stated: the delivery route releases a payload only if the ledger's
\* proof-of-purchase for the buyer and the product is true; otherwise it
\* answers 402, or 404 when the product is unknown, and releases nothing.
C29_Original ==
    [][ DeliveryAnswered =>
          /\ delivery'.released => ProofOfPurchase(delivery')
          /\ ~ProofOfPurchase(delivery') =>
                /\ ~delivery'.released
                /\ delivery'.status \in {"402", "404"}
                /\ delivery'.status = "404" <=> RowsOfIdParam(db, delivery'.id) = {}
      ]_vars

\* C29 (amended): the delivery route releases a payload, with status 200,
\* only if the ledger's proof-of-purchase for the buyer and the product of
\* the payload is true; otherwise it releases nothing and answers 402 when
\* the product was found, 404 when no mirror row matches, 400 when the body
\* has no buyerAddress, or 500 when the lookup or the ledger read failed.
C29_DeliveryGated ==
    [][ DeliveryAnswered =>
          /\ delivery'.released <=> delivery'.status = "200"
          /\ delivery'.released => ProofOfPurchase(delivery')
          /\ ~ProofOfPurchase(delivery') =>
                /\ ~delivery'.released
                /\ delivery'.status \in {"400", "402", "404", "500"}
          /\ delivery'.status = "402" =>
                /\ ~ProofOfPurchase(delivery')
                /\ delivery'.productId \in { db.products[i].productId :
                                               i \in RowsOfIdParam(db, delivery'.id) }
          /\ delivery'.status = "404" => RowsOfIdParam(db, delivery'.id) = {}
          /\ delivery'.status = "400" => delivery'.buyerAddress = NoAddress
      ]_vars

\* C29 witness: the buyer of a purchased product was answered 200 with the
\* payload of that product.
C29_Witness ==
    /\ delivery.pc = "idle" /\ delivery.status = "200" /\ delivery.released
    /\ delivery.buyerAddress = Buyer
    /\ <<Buyer, delivery.productId>> \in ouro.hasPurchased
    /\ delivery.productId \in DOMAIN ouro.products

\* C34: every successful listing stores its product under an identifier no
\* earlier listing used: the listing leaves every existing product record as
\* it was, and totalProducts is the number of stored products and of
\* ProductListed events.
C34_FreshProductId ==
    [][ /\ (JustMined("listProduct") /\ lastReceipt'.status = "ok") =>
              /\ lastReceipt'.productId \notin DOMAIN ouro.products
              /\ lastReceipt'.productId \in DOMAIN ouro'.products
              /\ \A p \in DOMAIN ouro.products :
                    ouro'.products[p] = ouro.products[p]
        /\ ouro'.totalProducts = Cardinality(DOMAIN ouro'.products)
        /\ ouro'.totalProducts
              = Cardinality({ k \in DOMAIN logs' : logs'[k].kind = "ProductListed" })
      ]_vars

\* C34 witness: the seller listed the same name twice in one block, and the
\* two products differ in their identifiers only by the sequence number.
C34_Witness ==
    /\ ouro.totalProducts = 2
    /\ \E p \in DOMAIN ouro.products : \E q \in DOMAIN ouro.products :
          /\ p # q
          /\ ouro.products[p].seller = ouro.products[q].seller
          /\ ouro.products[p].name = ouro.products[q].name
          /\ ouro.products[p].listedAt = ouro.products[q].listedAt

\* The <<buyer, product>> pairs of the purchase facts stored in st.
PurchaseFactPairs(st) ==
    UNION { { <<st.productPurchases[p][n].buyer, p>> :
                n \in DOMAIN st.productPurchases[p] } :
            p \in DOMAIN st.productPurchases }

\* C31: the proof-of-purchase fact of a buyer and a product is true exactly
\* when that buyer made a successful purchase of that product (a
\* ProductPurchased event and a stored purchase fact name the pair), and no
\* step ever clears it.
C31_ProofOfPurchase ==
    [][ /\ ouro.hasPurchased \subseteq ouro'.hasPurchased
        /\ ouro'.hasPurchased
              = { <<logs'[k].buyer, logs'[k].productId>> :
                    k \in { j \in DOMAIN logs' : logs'[j].kind = "ProductPurchased" } }
        /\ ouro'.hasPurchased = PurchaseFactPairs(ouro')
      ]_vars

\* C31 witness: the product was deprecated after the buyer bought it, and
\* the buyer's proof of purchase is still there.
C31_Witness ==
    /\ lastReceipt.op = "deprecateProduct" /\ lastReceipt.status = "ok"
    /\ <<Buyer, lastReceipt.productId>> \in ouro.hasPurchased
    /\ <<Seller, lastReceipt.productId>> \notin ouro.hasPurchased

\* C32: the purchase facts recorded for a product are as many as its sale
\* counter says.  A successful purchase appends one fact to its product's
\* list; no other step adds, changes or removes a fact.
C32_FactsMatchSales ==
    [][ /\ \A p \in DOMAIN ouro'.products :
              Len(PurchasesAt(ouro', p)) = ouro'.products[p].totalSales
        /\ DOMAIN ouro'.productPurchases \subseteq DOMAIN ouro'.products
        /\ \A p \in DOMAIN ouro.productPurchases :
              /\ Len(PurchasesAt(ouro', p)) >= Len(PurchasesAt(ouro, p))
              /\ \A n \in DOMAIN ouro.productPurchases[p] :
                    ouro'.productPurchases[p][n] = ouro.productPurchases[p][n]
        /\ IF JustMined("purchase") /\ lastReceipt'.status = "ok"
           THEN /\ Len(PurchasesAt(ouro', lastReceipt'.productId))
                      = Len(PurchasesAt(ouro, lastReceipt'.productId)) + 1
                /\ \A p \in DOMAIN ouro'.products \ {lastReceipt'.productId} :
                      PurchasesAt(ouro', p) = PurchasesAt(ouro, p)
           ELSE ouro'.productPurchases = ouro.productPurchases
      ]_vars

\* C32 witness: the buyer bought one product twice; it has two facts and a
\* sale counter of two.
C32_Witness ==
    /\ lastReceipt.op = "purchase" /\ lastReceipt.status = "ok"
    /\ Len(PurchasesAt(ouro, lastReceipt.productId)) = 2
    /\ ouro.products[lastReceipt.productId].totalSales = 2

\* C35: each product's cumulative revenue is its sale counter times
\* price - floor(price * 800 / 10000), and totalVolume is the sum over the
\* products of price times sale counter.
C35_RevenueAndVolume ==
    /\ \A p \in DOMAIN ouro.products :
          ouro.products[p].totalRevenueUSDC
            = ouro.products[p].totalSales
                * (ouro.products[p].priceUSDC
                     - (ouro.products[p].priceUSDC * 800) \div 10000)
    /\ ouro.totalVolume
          = SumOver([p \in DOMAIN ouro.products |->
                        ouro.products[p].priceUSDC * ouro.products[p].totalSales],
                    DOMAIN ouro.products)

\* C35 witness: a product priced 0.123457 was sold once (the fee is
\* floored), next to a product never sold.
C35_Witness ==
    /\ ouro.totalProducts = 2
    /\ ouro.totalVolume = 123457
    /\ \E p \in DOMAIN ouro.products :
          /\ ouro.products[p].priceUSDC = 123457
          /\ ouro.products[p].totalSales = 1
          /\ ouro.products[p].totalRevenueUSDC = 113581

\* C36: once a product is deprecated its sale counter and its cumulative
\* revenue never change again, it stays deprecated, and no purchase of it
\* succeeds.
C36_DeprecatedNeverSold ==
    [][ \A p \in DOMAIN ouro.products :
          ouro.products[p].deprecated =>
            /\ p \in DOMAIN ouro'.products
            /\ ouro'.products[p].deprecated
            /\ ouro'.products[p].totalSales = ouro.products[p].totalSales
            /\ ouro'.products[p].totalRevenueUSDC = ouro.products[p].totalRevenueUSDC
            /\ PurchasesAt(ouro', p) = PurchasesAt(ouro, p)
            /\ (JustMined("purchase") /\ lastReceipt'.productId = p)
                  => lastReceipt'.status # "ok"
      ]_vars

\* C36 witness: the buyer, holding the funds, tried to buy a deprecated
\* product and was refused.
C36_Witness ==
    /\ lastReceipt.op = "purchase" /\ lastReceipt.sender = Buyer
    /\ lastReceipt.status = "ProductIsDeprecated"
    /\ ouro.products[lastReceipt.productId].deprecated
    /\ usdc[Buyer] >= ouro.products[lastReceipt.productId].priceUSDC
    /\ ouro.totalVolume = 0

\* C37: a product's seller holds no proof of purchase for that product, and
\* no accepted review of a product is by its seller.
C37_SellerHoldsNoProof ==
    /\ \A p \in DOMAIN ouro.products :
          <<ouro.products[p].seller, p>> \notin ouro.hasPurchased
    /\ \A k \in DOMAIN logs :
          logs[k].kind = "ProductReviewed" =>
              logs[k].reviewer # ProductAt(ouro, logs[k].productId).seller

\* C37 witness: after the buyer bought the product, its seller sent a review
\* with a rating in range and was refused for want of a purchase.
C37_Witness ==
    /\ lastReceipt.op = "leaveReview" /\ lastReceipt.status = "NotProductBuyer"
    /\ lastReceipt.args.rating \in 1..5
    /\ lastReceipt.productId \in DOMAIN ouro.products
    /\ lastReceipt.sender = ouro.products[lastReceipt.productId].seller
    /\ ouro.products[lastReceipt.productId].totalSales = 1

\* The tokens held by all accounts together.
TotalSupply(bal) == SumOver(bal, Accounts)

\* The balances a successful listing or purchase leaves, the treasury being
\* none of the parties: price out of the buyer, fee to the treasury, the
\* rest to the seller; the listing fee from the seller to the treasury.
MovesExactly ==
    LET p == lastReceipt'.productId
        sender == lastReceipt'.sender
    IN IF lastReceipt'.op = "purchase"
       THEN usdc' = [a \in Accounts |->
                       usdc[a]
                         - (IF a = sender THEN ouro.products[p].priceUSDC ELSE 0)
                         + (IF a = ouro.treasury
                            THEN (ouro.products[p].priceUSDC * 800) \div 10000 ELSE 0)
                         + (IF a = ouro.products[p].seller
                            THEN ouro.products[p].priceUSDC
                                   - (ouro.products[p].priceUSDC * 800) \div 10000
                            ELSE 0)]
       ELSE usdc' = [a \in Accounts |->
                       usdc[a] - (IF a = sender THEN 2000000 ELSE 0)
                               + (IF a = ouro.treasury THEN 2000000 ELSE 0)]

\* C38 as stated: a successful purchase or listing moves exactly the stated
\* amounts, and the contract's own token balance is the same after any
\* listProduct or purchase call as before it.
C38_Original ==
    [][ (JustMined("listProduct") \/ JustMined("purchase")) =>
          /\ lastReceipt'.status = "ok" => MovesExactly
          /\ lastReceipt'.status # "ok" => usdc' = usdc
          /\ usdc'[ContractAddress] = usdc[ContractAddress]
      ]_vars

\* C38 (amended): a listProduct or purchase call conserves the tokens of all
\* accounts together and, reverted, moves none; while the treasury is not
\* the contract's own address a successful call moves exactly the stated
\* amounts and leaves the contract's balance as it was; while the treasury
\* is the contract itself the contract keeps the listing fee and the
\* platform fee.
C38_TokenConservation ==
    [][ (JustMined("listProduct") \/ JustMined("purchase")) =>
          /\ TotalSupply(usdc') = TotalSupply(usdc)
          /\ lastReceipt'.status # "ok" => usdc' = usdc
          /\ lastReceipt'.status = "ok" => MovesExactly
          /\ ouro.treasury # ContractAddress =>
                usdc'[ContractAddress] = usdc[ContractAddress]
          /\ (ouro.treasury = ContractAddress /\ lastReceipt'.status = "ok") =>
                usdc'[ContractAddress] > usdc[ContractAddress]
      ]_vars

\* C38 witness: with an external treasury, a listing and a purchase at
\* 0.123457 left the contract with no tokens, the treasury with the listing
\* fee and the floored platform fee.
C38_Witness ==
    /\ lastReceipt.op = "purchase" /\ lastReceipt.status = "ok"
    /\ ouro.treasury = InitialTreasury
    /\ usdc[ContractAddress] = 0
    /\ usdc[InitialTreasury] = LISTING_FEE + 9876
    /\ usdc[Buyer] = InitialBalance - 123457


\* C39: eventual consistency of the mirror.  At no time does a mirror
\* product's totalSales exceed the ledger's sale counter of that product,
\* and once the indexer has been handed every ledger event and no request is
\* in flight the two are equal; stated for the mirrors whose purchase rows
\* all record purchases the ledger holds.
C39_MirrorSalesConsistent ==
    RowsTruthful => \A i \in DOMAIN db.products :
        LET onLedger == ProductAt(ouro, db.products[i].productId).totalSales
        IN /\ db.products[i].totalSales <= onLedger
           /\ (FollowerCaughtUp /\ Quiescent) => db.products[i].totalSales = onLedger


\* C33: webhook activation is idempotent.  Once the success event of a
\* payment link has activated its subscription (the row carries an expiry),
\* a further delivery of that event changes no row of the subscriptions
\* table: neither the status nor the expiry, also after GET
\* /api/subscription/:address marked the row expired.
C33_WebhookIdempotent ==
    [][ \A linkId \in paidLinks :
          ( /\ WebhookSuccess(linkId)
            /\ \E s \in SubscriptionOfLink(linkId) : s.expiresAt # NoDate )
              => subscriptions' = subscriptions
      ]_vars

\* C40: one invocation of callPremiumEndpoint performs at most one purchase:
\* after an auto-payment it retries the request once and does not pay again.
C40_AtMostOnePurchase == agent.purchases <= 1 /\ agent.depth <= 1

====
